---- MODULE Spec2Model ----
(***************************************************************************)
(* Hierarchy-wide operations on integer edge data                          *)
(* (SAMRAI math::HierarchyEdgeDataOpsInteger) driven over a small patch    *)
(* hierarchy in an SPMD run.  The model is of the checked build            *)
(* (DEBUG_CHECK_ASSERTIONS defined, the CMake default): a failed           *)
(* TBOX_ASSERT aborts the run.                                             *)
(***************************************************************************)
EXTENDS Integers, Sequences, FiniteSets, TLC

(***************************************************************************)
(* Bounds of the model.                                                    *)
(***************************************************************************)
MaxProcs == 2
MaxLevels == 2

(* tbox::Dimension value of the hierarchy: the model is two-dimensional.   *)
DimVal == 2

Axes == 0 .. (DimVal - 1)

(* tbox::MathUtilities<int>::getMax()                                      *)
IntMax == 2147483647

(***************************************************************************)
(* Boxes: inclusive integer corners; index-space points.                   *)
(***************************************************************************)
Bx(x0, y0, x1, y1) == [lo |-> <<x0, y0>>, hi |-> <<x1, y1>>]

BoxEmpty(b) == \E i \in 1 .. DimVal : b.hi[i] < b.lo[i]

Points(b) == {<<x, y>> : x \in b.lo[1] .. b.hi[1], y \in b.lo[2] .. b.hi[2]}

(* hier::Box::grow by a uniform ghost cell width                           *)
Grow(b, g) == [lo |-> <<b.lo[1] - g, b.lo[2] - g>>,
               hi |-> <<b.hi[1] + g, b.hi[2] + g>>]

(* pdat::EdgeGeometry::toEdgeBox: the edges along `axis` of the cells of   *)
(* b carry one extra layer of entities in every transverse direction.     *)
toEdgeBox(b, axis) ==
    IF BoxEmpty(b) THEN b
    ELSE [lo |-> b.lo,
          hi |-> [i \in 1 .. DimVal |->
                     IF i # axis + 1 THEN b.hi[i] + 1 ELSE b.hi[i]]]

(* hier::Box::size                                                         *)
BoxSize(b) == IF BoxEmpty(b) THEN 0
              ELSE (b.hi[1] - b.lo[1] + 1) * (b.hi[2] - b.lo[2] + 1)

(* hier::Box::operator*: the intersection of two boxes                     *)
Intersect(b1, b2) ==
    [lo |-> [i \in 1 .. DimVal |-> IF b1.lo[i] > b2.lo[i] THEN b1.lo[i] ELSE b2.lo[i]],
     hi |-> [i \in 1 .. DimVal |-> IF b1.hi[i] < b2.hi[i] THEN b1.hi[i] ELSE b2.hi[i]]]

(***************************************************************************)
(* hier::BoxContainer: a sequence of boxes.                                *)
(***************************************************************************)
(* The pieces of `bursty` left when `solid` is taken away: a slab below    *)
(* and a slab above the solid box in direction 1, then in direction 2 of   *)
(* what remains between them.                                              *)
burstBoxes(bursty, solid) ==
    IF BoxEmpty(Intersect(bursty, solid)) THEN <<bursty>>
    ELSE LET cut == Intersect(bursty, solid)
         IN (IF bursty.lo[1] < solid.lo[1]
             THEN <<Bx(bursty.lo[1], bursty.lo[2], solid.lo[1] - 1, bursty.hi[2])>>
             ELSE <<>>)
            \o (IF bursty.hi[1] > solid.hi[1]
                THEN <<Bx(solid.hi[1] + 1, bursty.lo[2], bursty.hi[1], bursty.hi[2])>>
                ELSE <<>>)
            \o (IF bursty.lo[2] < solid.lo[2]
                THEN <<Bx(cut.lo[1], bursty.lo[2], cut.hi[1], solid.lo[2] - 1)>>
                ELSE <<>>)
            \o (IF bursty.hi[2] > solid.hi[2]
                THEN <<Bx(cut.lo[1], solid.hi[2] + 1, cut.hi[1], bursty.hi[2])>>
                ELSE <<>>)

(* hier::BoxContainer::removeIntersections(takeaway box)                   *)
RECURSIVE removeIntersections(_, _)
removeIntersections(boxes, takeaway) ==
    IF boxes = <<>> THEN <<>>
    ELSE burstBoxes(Head(boxes), takeaway)
            \o removeIntersections(Tail(boxes), takeaway)

(* The boxes with the first n of the takeaway boxes removed in turn.       *)
RECURSIVE removeEarlier(_, _, _)
removeEarlier(boxes, takeaways, n) ==
    IF n = 0 THEN boxes
    ELSE removeIntersections(removeEarlier(boxes, takeaways, n - 1), takeaways[n])

(* The index points a box container covers.                                *)
Covered(boxes) == UNION {Points(boxes[k]) : k \in 1 .. Len(boxes)}

(***************************************************************************)
(* hier::BoxUtilities::makeNonOverlappingBoxContainers: the i-th output    *)
(* container holds the pieces of input box i outside the input boxes       *)
(* placed before it.                                                       *)
(***************************************************************************)
makeNonOverlappingBoxContainers(boxes) ==
    [i \in 1 .. Len(boxes) |-> removeEarlier(<<boxes[i]>>, boxes, i - 1)]

(***************************************************************************)
(* The patch descriptor: static metadata of every data id.                 *)
(***************************************************************************)
Ids == 0 .. 4

PatchDescriptor ==
    [id \in Ids |->
        CASE id = 0 -> [type |-> "EdgeInt", depth |-> 1, ghosts |-> 1]
          [] id = 1 -> [type |-> "EdgeInt", depth |-> 1, ghosts |-> 0]
          [] id = 2 -> [type |-> "EdgeInt", depth |-> 2, ghosts |-> 1]
          [] id = 3 -> [type |-> "CellDouble", depth |-> 1, ghosts |-> 1]
          [] OTHER  -> [type |-> "EdgeInt", depth |-> 1, ghosts |-> 1]]

(***************************************************************************)
(* Level layouts the gridding algorithm may produce (global box lists).    *)
(***************************************************************************)
BoxA == Bx(0, 0, 0, 0)
BoxB == Bx(1, 0, 1, 0)
BoxD == Bx(1, 0, 2, 0)

Layouts == {<<BoxA, BoxB>>, <<BoxA, BoxD>>}

(* Distribution of a level's patches over the processes (load balancer).   *)
Policies == {"allOnFirst", "roundRobin"}

OwnerOf(pol, il, np) ==
    IF pol = "allOnFirst" THEN 1 ELSE ((il - 1) % np) + 1

(***************************************************************************)
(* pdat::EdgeData<int>: one array per edge axis over the edge box of the   *)
(* ghost box, `depth` components per entity.  An entity is <<axis, point,  *)
(* component>>.                                                            *)
(***************************************************************************)
Entities(box, ghosts, depth) ==
    UNION {{<<a, p, k>> : p \in Points(toEdgeBox(Grow(box, ghosts), a)),
                          k \in 0 .. (depth - 1)} : a \in Axes}

InitVal(id, ln, il, e) ==
    ((e[2][1] + 2 * e[2][2] + e[1] + e[3] + id + ln + il) % 5) - 2

NewArray(id, ln, il, box) ==
    [depth  |-> PatchDescriptor[id].depth,
     ghosts |-> PatchDescriptor[id].ghosts,
     box    |-> box,
     val    |-> [e \in Entities(box, PatchDescriptor[id].ghosts,
                                     PatchDescriptor[id].depth) |->
                    InitVal(id, ln, il, e)]]

(* A null std::shared_ptr<pdat::EdgeData<int> >                            *)
NullData == [depth |-> 0, ghosts |-> 0, box |-> Bx(0, 0, -1, -1), val |-> <<>>]

IsNull(d) == d.depth = 0

(* hier::PatchData::getGhostBox                                            *)
getGhostBox(d) == Grow(d.box, d.ghosts)

VARIABLES
    nprocs,                       \* tbox::SAMRAI_MPI::getSize()
    policy,                       \* how the load balancer assigns patches
    hier,                         \* the PatchHierarchy: its PatchLevels
    pdata,                        \* patch data of every patch, by id
    pc,                           \* "new", "live", "done" or "aborted"
    d_coarsest_level,
    d_finest_level,
    d_nonoverlapping_edge_boxes,  \* [axis][ln][patch] -> covered points
    bound,                        \* a resetLevels has succeeded
    last,                         \* the most recent call and its outcome
    program,                      \* the scalar calls each process is to issue
    proc,                         \* where each process is in its program
    dbox                          \* the tbox::DatabaseBox objects: their d_data

vars == <<nprocs, policy, hier, pdata, pc, d_coarsest_level, d_finest_level,
          d_nonoverlapping_edge_boxes, bound, last, program, proc, dbox>>

opvars == <<d_coarsest_level, d_finest_level, d_nonoverlapping_edge_boxes>>

Procs == 1 .. nprocs

(* hier::PatchHierarchy::getNumberOfLevels / getFinestLevelNumber          *)
getNumberOfLevels == Len(hier)
getFinestLevelNumber == Len(hier) - 1

(* hier::PatchHierarchy::getPatchLevel                                     *)
getPatchLevel(ln) == hier[ln + 1]

(* hier::PatchLevel::getBoxes / getNumberOfPatches (global)                *)
getBoxes(level) == level.boxes
getNumberOfPatches(level) == Len(level.boxes)

(* A call: the operation, its ids (or levels), scalars and flag.  The      *)
(* record of a call made keeps its outcome, return value and visits per    *)
(* process, and the patch data the call started from.                      *)
MkOp(name, ids, alpha, beta, interior) ==
    [name |-> name, ids |-> ids, alpha |-> alpha, beta |-> beta,
     interior |-> interior, rnd |-> 0, ub |-> "zero"]

NoCall == [op |-> "none", args |-> <<>>, alpha |-> 0, beta |-> 0,
           interior |-> FALSE, outcome |-> <<>>, ret |-> <<>>, log |-> <<>>,
           pre |-> <<>>]

AllProcs(x) == [r \in Procs |-> x]

Call(op, outcome, ret, log) ==
    [op |-> op.name, args |-> op.ids, alpha |-> op.alpha, beta |-> op.beta,
     interior |-> op.interior, outcome |-> outcome, ret |-> ret, log |-> log,
     pre |-> pdata]

LifeCall(name, c, f, outcome) ==
    Call(MkOp(name, <<c, f>>, 0, 0, FALSE), AllProcs(outcome), AllProcs(0),
         AllProcs(<<>>))

(***************************************************************************)
(* The environment: the gridding algorithm builds, regrids and removes     *)
(* levels.  A new level gets freshly allocated patch data.                 *)
(***************************************************************************)
NewLevel(layout) ==
    [boxes |-> layout,
     owner |-> [il \in 1 .. Len(layout) |-> OwnerOf(policy, il, nprocs)]]

NewLevelData(ln, layout) ==
    [il \in 1 .. Len(layout) |->
        [id \in Ids |->
            IF PatchDescriptor[id].type = "EdgeInt"
            THEN NewArray(id, ln, il, layout[il])
            ELSE NullData]]

PutLevel(seq, ln, x) ==
    [i \in 1 .. (IF ln + 1 > Len(seq) THEN ln + 1 ELSE Len(seq)) |->
        IF i = ln + 1 THEN x ELSE seq[i]]

(* hier::PatchHierarchy::makeNewPatchLevel: a new finest level, or the     *)
(* regridding of an existing one.                                          *)
MakeNewPatchLevel(ln, layout) ==
    /\ pc \in {"new", "live"}
    /\ ln \in 0 .. getNumberOfLevels
    /\ ln < MaxLevels
    /\ hier' = PutLevel(hier, ln, NewLevel(layout))
    /\ pdata' = PutLevel(pdata, ln, NewLevelData(ln, layout))
    /\ last' = NoCall
    /\ UNCHANGED <<dbox, program, proc, nprocs, policy, pc, opvars, bound>>

(* hier::PatchHierarchy::removePatchLevel of the finest level.             *)
RemovePatchLevel ==
    /\ pc \in {"new", "live"}
    /\ getNumberOfLevels > 0
    /\ hier' = SubSeq(hier, 1, Len(hier) - 1)
    /\ pdata' = SubSeq(pdata, 1, Len(pdata) - 1)
    /\ last' = NoCall
    /\ UNCHANGED <<dbox, program, proc, nprocs, policy, pc, opvars, bound>>

(***************************************************************************)
(* resetLevels and the constructor.                                        *)
(***************************************************************************)
(* The level-range assertion every operation starts with.                  *)
LevelRangeValid(c, f) ==
    (c >= 0) /\ (f >= c) /\ (f <= getFinestLevelNumber)

(* The edge boxes of axis nd of the patches of a level.                    *)
(* The level's boxes left as cell boxes.                                   *)
LevelCellBoxes(level, nd) ==
    [i \in 1 .. Len(getBoxes(level)) |-> getBoxes(level)[i]]

(* The level's edge boxes taken from the last box to the first.            *)
LevelEdgeBoxesReversed(level, nd) ==
    [i \in 1 .. Len(getBoxes(level)) |->
        toEdgeBox(getBoxes(level)[Len(getBoxes(level)) + 1 - i], nd)]

(* The level's edge boxes of the next axis.                                *)
LevelEdgeBoxesNextAxis(level, nd) ==
    [i \in 1 .. Len(getBoxes(level)) |->
        toEdgeBox(getBoxes(level)[i], (nd + 1) % DimVal)]

(* edge_boxes = level->getBoxes(), every box replaced by its edge box      *)
LevelEdgeBoxes(level, nd) ==
    [i \in 1 .. Len(getBoxes(level)) |-> toEdgeBox(getBoxes(level)[i], nd)]

(* The loop of resetLevels starting one level late.                        *)
resetLevelsBoxesLate(c, f) ==
    [nd \in Axes |->
        [i \in 1 .. (f + 1) |->
            IF (i - 1 > c) /\ (i - 1 <= f)
            THEN makeNonOverlappingBoxContainers(
                     LevelEdgeBoxes(getPatchLevel(i - 1), nd))
            ELSE IF i <= Len(d_nonoverlapping_edge_boxes[nd])
                 THEN d_nonoverlapping_edge_boxes[nd][i]
                 ELSE <<>>]]

(* The loop of resetLevels over [c, f]: the vectors resized to f + 1, and  *)
(* the slot of every level in range recomputed.                            *)
resetLevelsBoxes(c, f) ==
    [nd \in Axes |->
        [i \in 1 .. (f + 1) |->
            IF (i - 1 >= c) /\ (i - 1 <= f)
            THEN makeNonOverlappingBoxContainers(
                     LevelEdgeBoxes(getPatchLevel(i - 1), nd))
            ELSE IF i <= Len(d_nonoverlapping_edge_boxes[nd])
                 THEN d_nonoverlapping_edge_boxes[nd][i]
                 ELSE <<>>]]

(* The members had the range been stored before the assertion.             *)
resetLevelsFailedLate(c, f) ==
    <<c, f, d_nonoverlapping_edge_boxes>>

(* The operator's members when the assertion of resetLevels fails: the     *)
(* assertion precedes every assignment.                                    *)
resetLevelsFailed(c, f) ==
    <<d_coarsest_level, d_finest_level, d_nonoverlapping_edge_boxes>>

resetLevelsBody(c, f) ==
    IF LevelRangeValid(c, f)
    THEN /\ d_coarsest_level' = c
         /\ d_finest_level' = f
         /\ d_nonoverlapping_edge_boxes' = resetLevelsBoxes(c, f)
         /\ bound' = TRUE
         /\ pc' = "live"
         /\ last' = LifeCall("resetLevels", c, f, "ok")
    ELSE /\ d_coarsest_level' = resetLevelsFailed(c, f)[1]
         /\ d_finest_level' = resetLevelsFailed(c, f)[2]
         /\ d_nonoverlapping_edge_boxes' = resetLevelsFailed(c, f)[3]
         /\ bound' = bound
         /\ pc' = "aborted"
         /\ last' = LifeCall("resetLevels", c, f, "assert")

(* setPatchHierarchy that also decomposes the levels of the stored range   *)
(* that the new hierarchy has.                                             *)
setPatchHierarchyRecomputing(h) ==
    /\ pc = "live"
    /\ hier' = [i \in 1 .. Len(h) |-> NewLevel(h[i])]
    /\ pdata' = [i \in 1 .. Len(h) |-> NewLevelData(i - 1, h[i])]
    /\ last' = [Call(MkOp("setPatchHierarchy", <<>>, 0, 0, FALSE), AllProcs("ok"),
                     AllProcs(0), AllProcs(<<>>)) EXCEPT !.pre = <<>>]
    /\ d_nonoverlapping_edge_boxes' =
          [nd \in Axes |->
              [i \in 1 .. Len(d_nonoverlapping_edge_boxes[nd]) |->
                  IF (i - 1 >= d_coarsest_level) /\ (i - 1 <= d_finest_level)
                        /\ (i <= Len(h))
                  THEN makeNonOverlappingBoxContainers(
                           [k \in 1 .. Len(h[i]) |-> toEdgeBox(h[i][k], nd)])
                  ELSE d_nonoverlapping_edge_boxes[nd][i]]]
    /\ UNCHANGED <<dbox, program, proc, nprocs, policy, pc, d_coarsest_level, d_finest_level, bound>>

(* setPatchHierarchy: d_hierarchy = hierarchy, and nothing else.           *)
setPatchHierarchy(h) ==
    /\ pc = "live"
    /\ hier' = [i \in 1 .. Len(h) |-> NewLevel(h[i])]
    /\ pdata' = [i \in 1 .. Len(h) |-> NewLevelData(i - 1, h[i])]
    /\ last' = [Call(MkOp("setPatchHierarchy", <<>>, 0, 0, FALSE), AllProcs("ok"),
                     AllProcs(0), AllProcs(<<>>)) EXCEPT !.pre = <<>>]
    /\ UNCHANGED <<dbox, program, proc, nprocs, policy, pc, opvars, bound>>

(* A completed call returns to the caller, who goes on.                    *)
Continue ==
    /\ pc = "done"
    /\ pc' = "live"
    /\ UNCHANGED <<dbox, program, proc, nprocs, policy, hier, pdata, opvars, bound, last>>

(* Level numbers a caller may pass, valid or not.                           *)
LevelArgs == -1 .. MaxLevels

resetLevels(c, f) ==
    /\ pc = "live"
    /\ resetLevelsBody(c, f)
    /\ UNCHANGED <<dbox, program, proc, nprocs, policy, hier, pdata>>

(* The constructor that stores a negative level argument whatever the     *)
(* hierarchy holds.                                                        *)
ConstructStoring(c, f) ==
    /\ pc = "new"
    /\ IF (c < 0) \/ (f < 0)
       THEN /\ d_coarsest_level' = c
            /\ d_finest_level' = f
            /\ pc' = "live"
            /\ last' = LifeCall("construct", c, f, "ok")
            /\ UNCHANGED <<d_nonoverlapping_edge_boxes, bound>>
       ELSE resetLevelsBody(c, f)
    /\ UNCHANGED <<dbox, program, proc, nprocs, policy, hier, pdata>>

(* The constructor.                                                        *)
Construct(c, f) ==
    /\ pc = "new"
    /\ IF (c < 0) \/ (f < 0)
       THEN IF getNumberOfLevels = 0
            THEN /\ d_coarsest_level' = c
                 /\ d_finest_level' = f
                 /\ pc' = "live"
                 /\ last' = LifeCall("construct", c, f, "ok")
                 /\ UNCHANGED <<d_nonoverlapping_edge_boxes, bound>>
            ELSE resetLevelsBody(0, getFinestLevelNumber)
       ELSE resetLevelsBody(c, f)
    /\ UNCHANGED <<dbox, program, proc, nprocs, policy, hier, pdata>>

(***************************************************************************)
(* Single-patch operators on edge data (math::PatchEdgeDataOpsInteger).    *)
(***************************************************************************)
(* The entries an operator touches: those of the destination lying in the  *)
(* edge box of `box` and inside every source array.                        *)
Region(box, d, srcs) ==
    {e \in DOMAIN d.val :
        /\ e[2] \in Points(toEdgeBox(box, e[1]))
        /\ \A i \in 1 .. Len(srcs) : e \in DOMAIN srcs[i].val}

Abs(x) == IF x < 0 THEN -x ELSE x

(* int division of C++: truncation toward zero                             *)
TruncDiv(a, b) ==
    IF (a < 0) = (b < 0) THEN Abs(a) \div Abs(b) ELSE -(Abs(a) \div Abs(b))

MinOf(S) == CHOOSE m \in S : \A x \in S : m <= x
MaxOf(S) == CHOOSE m \in S : \A x \in S : m >= x

(* Array order of the entries: axis, then component, then y, then x.       *)
Before(e1, e2) ==
    LET k1 == <<e1[1], e1[3], e1[2][2], e1[2][1]>>
        k2 == <<e2[1], e2[3], e2[2][2], e2[2][1]>>
    IN \E i \in 1 .. 4 : /\ k1[i] < k2[i]
                         /\ \A j \in 1 .. (i - 1) : k1[j] = k2[j]

OpsWriting == {"copyData", "setToScalar", "scale", "addScalar", "add",
               "subtract", "multiply", "divide", "reciprocal", "linearSum",
               "axpy", "axmy", "abs", "setRandomValues"}
OpsScalar == {"numberOfEntries", "min", "max"}
OpsAll == OpsWriting \cup OpsScalar \cup {"swapData", "printData"}

(* int arithmetic as the build computes it: two's complement, 32 bits.     *)
(* The sums are arranged so that no intermediate value leaves the int      *)
(* range.                                                                  *)
IntAdd(a, b) ==
    IF (b > 0) /\ (a > IntMax - b)
    THEN (a - IntMax - 1) + (b - IntMax - 1)
    ELSE IF (b < 0) /\ (a < (-IntMax - 1) - b)
    THEN (a + IntMax + 1) + (b + IntMax + 1)
    ELSE a + b

IntSub(a, b) ==
    IF b = -IntMax - 1 THEN IntAdd(IntAdd(a, IntMax), 1) ELSE IntAdd(a, -b)

(* a * b as the sum of as many copies of one factor as the other says.     *)
RECURSIVE IntMulBy(_, _)
IntMulBy(k, a) ==
    IF k = 0 THEN 0
    ELSE IF k > 0 THEN IntAdd(IntMulBy(k - 1, a), a)
    ELSE IntSub(IntMulBy(k + 1, a), a)

IntMul(a, b) ==
    IF (b = -IntMax - 1) \/ (a # -IntMax - 1 /\ Abs(a) <= Abs(b))
    THEN IntMulBy(a, b) ELSE IntMulBy(b, a)

(* The value an elementwise operator stores, from the source values a, b.  *)
Elem(op, a, b) ==
    CASE op.name = "copyData"        -> a
      [] op.name = "setToScalar"     -> op.alpha
      [] op.name = "scale"           -> IntMul(op.alpha, a)
      [] op.name = "addScalar"       -> IntAdd(a, op.alpha)
      [] op.name = "add"             -> IntAdd(a, b)
      [] op.name = "subtract"        -> IntSub(a, b)
      [] op.name = "multiply"        -> IntMul(a, b)
      [] op.name = "divide"          -> IF b = 0 THEN 0 ELSE TruncDiv(a, b)
      [] op.name = "reciprocal"      -> IF a = 0 THEN 0 ELSE TruncDiv(1, a)
      [] op.name = "linearSum"       -> IntAdd(IntMul(op.alpha, a), IntMul(op.beta, b))
      [] op.name = "axpy"            -> IntAdd(IntMul(op.alpha, a), b)
      [] op.name = "axmy"            -> IntSub(IntMul(op.alpha, a), b)
      [] op.name = "abs"             -> Abs(a)
      [] op.name = "setRandomValues" -> op.beta + op.rnd
      [] OTHER                       -> a

(* Entries whose integer division has a zero divisor (undefined).          *)
ZeroDiv(op, hs, reg) ==
    CASE op.name = "divide"     -> {e \in reg : hs[3].val[e] = 0}
      [] op.name = "reciprocal" -> {e \in reg : hs[2].val[e] = 0}
      [] OTHER                  -> {}

(* An elementwise operator on the handles hs (destination first) over box. *)
(* A division by zero either traps, leaving the entries before it         *)
(* written, or yields 0, as the target decides.                            *)
PatchWrite(op, hs, box) ==
    LET d == hs[1]
        reg == Region(box, d, Tail(hs))
        zs == ZeroDiv(op, hs, reg)
        trap == (zs # {}) /\ (op.ub = "trap")
        first == CHOOSE z \in zs : \A y \in zs : (y = z) \/ Before(z, y)
        wr == IF trap THEN {e \in reg : Before(e, first)} ELSE reg
        a(e) == IF Len(hs) >= 2 THEN hs[2].val[e] ELSE 0
        b(e) == IF Len(hs) >= 3 THEN hs[3].val[e] ELSE 0
    IN [d |-> [d EXCEPT !.val = [e \in DOMAIN d.val |->
                                    IF e \in wr THEN Elem(op, a(e), b(e))
                                    ELSE d.val[e]]],
        outcome |-> IF trap THEN "fpe" ELSE "ok",
        val |-> 0]

(* numberOfEntries, min and max of one patch's array over box.             *)
PatchNumberOfEntries(d, box) ==
    LET ibox == Intersect(box, getGhostBox(d))
        n0 == BoxSize(toEdgeBox(ibox, 0)) * d.depth
        n1 == BoxSize(toEdgeBox(ibox, 1)) * d.depth
    IN n0 + n1

PatchMin(d, box) ==
    LET vs == {d.val[e] : e \in Region(box, d, <<>>)}
    IN IF vs = {} THEN IntMax ELSE MinOf(vs)

PatchMax(d, box) ==
    LET vs == {d.val[e] : e \in Region(box, d, <<>>)}
    IN IF vs = {} THEN -IntMax ELSE MaxOf(vs)

PatchOp(op, hs, box) ==
    CASE op.name \in OpsWriting -> PatchWrite(op, hs, box)
      [] op.name = "numberOfEntries" ->
            [d |-> hs[1], outcome |-> "ok", val |-> PatchNumberOfEntries(hs[1], box)]
      [] op.name = "min" ->
            [d |-> hs[1], outcome |-> "ok", val |-> PatchMin(hs[1], box)]
      [] op.name = "max" ->
            [d |-> hs[1], outcome |-> "ok", val |-> PatchMax(hs[1], box)]
      [] OTHER -> [d |-> hs[1], outcome |-> "ok", val |-> 0]

(* PatchEdgeDataOpsInteger::swapData: the two handles of the patch are     *)
(* exchanged after the consistency assertions.                             *)
PatchSwap(arrs, hs, id1, id2) ==
    IF \/ IsNull(hs[1]) \/ IsNull(hs[2])
       \/ hs[1].depth # hs[2].depth
       \/ hs[1].box # hs[2].box
       \/ getGhostBox(hs[1]) # getGhostBox(hs[2])
    THEN [arrs |-> arrs, outcome |-> "assert"]
    ELSE [arrs |-> [arrs EXCEPT ![id1] = arrs[id2], ![id2] = arrs[id1]],
          outcome |-> "ok"]

(***************************************************************************)
(* The driving loops of a hierarchy-wide operation on one process.         *)
(***************************************************************************)
(* hier::PatchLevel::begin() .. end(): the locally owned patches, in order *)
RECURSIVE LocalPatchesFrom(_, _, _)
LocalPatchesFrom(level, r, il) ==
    IF il > Len(level.boxes) THEN <<>>
    ELSE (IF level.owner[il] = r THEN <<il>> ELSE <<>>)
            \o LocalPatchesFrom(level, r, il + 1)

LocalPatches(level, r) == LocalPatchesFrom(level, r, 1)

(* The outer loop stopping one level early.                                 *)
RECURSIVE VisitsShort(_, _, _)
VisitsShort(r, ln, f) ==
    IF ln >= f THEN <<>>
    ELSE LET lp == LocalPatches(getPatchLevel(ln), r)
         IN [i \in 1 .. Len(lp) |-> <<ln, lp[i]>>] \o VisitsShort(r, ln + 1, f)

(* for (ln = c; ln <= f; ++ln) for (ip(level->begin()); ...): the patches  *)
(* process r visits, as <<ln, il>>.                                        *)
RECURSIVE Visits(_, _, _)
Visits(r, ln, f) ==
    IF ln > f THEN <<>>
    ELSE LET lp == LocalPatches(getPatchLevel(ln), r)
         IN [i \in 1 .. Len(lp) |-> <<ln, lp[i]>>] \o Visits(r, ln + 1, f)

(* SAMRAI_SHARED_PTR_CAST<pdat::EdgeData<int>, hier::PatchData>(           *)
(* p->getPatchData(id)): null unless the id names integer edge data.       *)
getPatchData(arrs, id) ==
    IF PatchDescriptor[id].type = "EdgeInt" THEN arrs[id] ELSE NullData

(* The handles of copyData both resolved from the destination id.          *)
HandlesCopyFromSelf(arrs, op) ==
    [i \in 1 .. Len(op.ids) |->
        getPatchData(arrs, op.ids[IF op.name = "copyData" THEN 1 ELSE i])]

(* The two sources of linearSum resolved in exchanged order.               *)
HandlesSourcesExchanged(arrs, op) ==
    [i \in 1 .. Len(op.ids) |->
        getPatchData(arrs, op.ids[IF op.name = "linearSum" /\ i > 1
                                  THEN 5 - i ELSE i])]

(* The casts at the top of the inner loop body: one handle per id the      *)
(* operation names, destination first.                                     *)
Handles(arrs, op) ==
    [i \in 1 .. Len(op.ids) |-> getPatchData(arrs, op.ids[i])]

(* The region taken from the last-named array.                             *)
RegionBoxOfSource(op, pbox, hs) ==
    IF op.name = "numberOfEntries" THEN getGhostBox(hs[1])
    ELSE IF op.interior THEN pbox ELSE getGhostBox(hs[Len(hs)])

(* hier::Box box = (interior_only ? p->getBox() : d->getGhostBox()); hs is *)
(* the resolved handles, destination first.                                *)
RegionBox(op, pbox, hs) ==
    IF op.name = "numberOfEntries" THEN getGhostBox(hs[1])
    ELSE IF op.interior THEN pbox ELSE getGhostBox(hs[1])

Event(kind, ln, il, box) == [kind |-> kind, ln |-> ln, il |-> il, box |-> box]

(* The count of the last patch replacing the running count.                *)
AccumulateLast(op, acc, v) ==
    CASE op.name = "min" -> IF v < acc THEN v ELSE acc
      [] op.name = "max" -> IF v > acc THEN v ELSE acc
      [] op.name = "numberOfEntries" -> v
      [] OTHER -> acc

(* minval = Min(minval, ...), maxval = Max(maxval, ...), entries += ...    *)
Accumulate(op, acc, v) ==
    CASE op.name = "min" -> IF v < acc THEN v ELSE acc
      [] op.name = "max" -> IF v > acc THEN v ELSE acc
      [] op.name = "numberOfEntries" -> acc + v
      [] OTHER -> acc

(* Both accumulators starting from zero.                                   *)
AccInitZero(op) == 0

(* int minval = tbox::MathUtilities<int>::getMax(); int maxval =           *)
(* -(tbox::MathUtilities<int>::getMax()); int entries = 0: the initial     *)
(* value of the local accumulator.                                         *)
AccInit(op) ==
    CASE op.name = "min" -> IntMax
      [] op.name = "max" -> -IntMax
      [] OTHER -> 0

(* The inner loop body whose swap replaces the first handle only.          *)
VisitPatchOneWay(st, v, op) ==
    LET ln == v[1]
        il == v[2]
        arrs == st.pd[ln + 1][il]
        pbox == getPatchLevel(ln).boxes[il]
        hs == Handles(arrs, op)
    IN IF op.name = "swapData"
       THEN LET sw == PatchSwap(arrs, hs, op.ids[1], op.ids[2])
            IN [pd |-> [st.pd EXCEPT ![ln + 1][il] =
                           [sw.arrs EXCEPT ![op.ids[2]] = arrs[op.ids[2]]]],
                log |-> Append(st.log, Event("patch", ln, il, pbox)),
                outcome |-> sw.outcome,
                acc |-> st.acc]
       ELSE IF \E i \in 1 .. Len(hs) : IsNull(hs[i])
       THEN [st EXCEPT !.outcome = "assert"]
       ELSE LET box == RegionBox(op, pbox, hs)
                res == PatchOp(op, hs, box)
            IN [pd |-> [st.pd EXCEPT ![ln + 1][il][op.ids[1]] = res.d],
                log |-> Append(st.log, Event("patch", ln, il, box)),
                outcome |-> res.outcome,
                acc |-> Accumulate(op, st.acc, res.val)]

(* The inner loop body that stores the result in the array of the last id  *)
(* of the call.                                                            *)
VisitPatchIntoLastId(st, v, op) ==
    LET ln == v[1]
        il == v[2]
        arrs == st.pd[ln + 1][il]
        pbox == getPatchLevel(ln).boxes[il]
        hs == Handles(arrs, op)
    IN IF op.name = "swapData"
       THEN LET sw == PatchSwap(arrs, hs, op.ids[1], op.ids[2])
            IN [pd |-> [st.pd EXCEPT ![ln + 1][il] = sw.arrs],
                log |-> Append(st.log, Event("patch", ln, il, pbox)),
                outcome |-> sw.outcome,
                acc |-> st.acc]
       ELSE IF \E i \in 1 .. Len(hs) : IsNull(hs[i])
       THEN [st EXCEPT !.outcome = "assert"]
       ELSE LET box == RegionBox(op, pbox, hs)
                res == PatchOp(op, hs, box)
            IN [pd |-> [st.pd EXCEPT ![ln + 1][il][op.ids[Len(op.ids)]] = res.d],
                log |-> Append(st.log, Event("patch", ln, il, box)),
                outcome |-> res.outcome,
                acc |-> Accumulate(op, st.acc, res.val)]

(* The body of the inner loop for the patch v = <<ln, il>>.                *)
VisitPatch(st, v, op) ==
    LET ln == v[1]
        il == v[2]
        arrs == st.pd[ln + 1][il]
        pbox == getPatchLevel(ln).boxes[il]
        hs == Handles(arrs, op)
    IN IF op.name = "swapData"
       THEN LET sw == PatchSwap(arrs, hs, op.ids[1], op.ids[2])
            IN [pd |-> [st.pd EXCEPT ![ln + 1][il] = sw.arrs],
                log |-> Append(st.log, Event("patch", ln, il, pbox)),
                outcome |-> sw.outcome,
                acc |-> st.acc]
       ELSE IF \E i \in 1 .. Len(hs) : IsNull(hs[i])
       THEN [st EXCEPT !.outcome = "assert"]
       ELSE LET box == RegionBox(op, pbox, hs)
                res == PatchOp(op, hs, box)
            IN [pd |-> [st.pd EXCEPT ![ln + 1][il][op.ids[1]] = res.d],
                log |-> Append(st.log, Event("patch", ln, il, box)),
                outcome |-> res.outcome,
                acc |-> Accumulate(op, st.acc, res.val)]

(* The loop that puts the patch data back as it was when a patch fails.    *)
RECURSIVE RunLoopRollingBack(_, _, _)
RunLoopRollingBack(vs, st, op) ==
    IF vs = <<>> THEN st
    ELSE LET st2 == VisitPatch(st, Head(vs), op)
         IN IF st2.outcome # "ok" THEN [st2 EXCEPT !.pd = pdata]
            ELSE RunLoopRollingBack(Tail(vs), st2, op)

RECURSIVE RunLoop(_, _, _)
RunLoop(vs, st, op) ==
    IF vs = <<>> THEN st
    ELSE LET st2 == VisitPatch(st, Head(vs), op)
         IN IF st2.outcome # "ok" THEN st2 ELSE RunLoop(Tail(vs), st2, op)

(***************************************************************************)
(* A hierarchy-wide operation, called by every process (SPMD).             *)
(***************************************************************************)
(* The assertion without its middle conjunct.                              *)
PreconditionNoOrder ==
    (d_coarsest_level >= 0) /\ (d_finest_level <= getFinestLevelNumber)

(* TBOX_ASSERT((d_coarsest_level >= 0) && (d_finest_level >=               *)
(* d_coarsest_level) && (d_finest_level <= getFinestLevelNumber())), the   *)
(* first statement of every operation.                                     *)
PreconditionHolds ==
    LevelRangeValid(d_coarsest_level, d_finest_level)

(* The factory assertions without the ghost cell width.                    *)
SwapFactoriesDepthOnly(id1, id2) ==
    /\ PatchDescriptor[id1].type = "EdgeInt"
    /\ PatchDescriptor[id2].type = "EdgeInt"
    /\ PatchDescriptor[id1].depth = PatchDescriptor[id2].depth

(* The factory assertions swapData starts with in a checked build.         *)
SwapFactoriesOk(id1, id2) ==
    /\ PatchDescriptor[id1].type = "EdgeInt"
    /\ PatchDescriptor[id2].type = "EdgeInt"
    /\ PatchDescriptor[id1].depth = PatchDescriptor[id2].depth
    /\ PatchDescriptor[id1].ghosts = PatchDescriptor[id2].ghosts

(* The reduction skipped for a pair of processes.                          *)
UsesAllreduceAboveTwo == nprocs > 2

(* The reduction issued for any process count.                             *)
UsesAllreduceAlways == nprocs >= 1

(* if (mpi.getSize() > 1) mpi.Allreduce(...)                               *)
UsesAllreduce == nprocs > 1

RECURSIVE SumOver(_, _)
SumOver(f, S) ==
    IF S = {} THEN 0
    ELSE LET x == CHOOSE y \in S : TRUE IN f[x] + SumOver(f, S \ {x})

(* tbox::SAMRAI_MPI::Allreduce with MPI_MIN, MPI_MAX or MPI_SUM.           *)
Allreduce(op, accs) ==
    CASE op.name = "min" -> MinOf({accs[r] : r \in DOMAIN accs})
      [] op.name = "max" -> MaxOf({accs[r] : r \in DOMAIN accs})
      [] OTHER           -> SumOver(accs, DOMAIN accs)

(* The global value left unset when the reduction is skipped.              *)
ReducedUnset(op, accs, r) ==
    IF UsesAllreduce THEN Allreduce(op, accs) ELSE 0

(* The value the scalar operation returns on process r once the loops are  *)
(* done: global_x = x; if (size > 1) Allreduce(&x, &global_x, ...).        *)
Reduced(op, accs, r) ==
    IF UsesAllreduce THEN Allreduce(op, accs) ELSE accs[r]

Failed(outcome) ==
    [pd |-> pdata, outcome |-> AllProcs(outcome), ret |-> AllProcs(0),
     log |-> AllProcs(<<>>)]

(* The sizes of the patches' whole edge boxes instead.                     *)
InteriorEntriesOverlapping ==
    LET lns == d_coarsest_level .. d_finest_level
        cnt == [ln \in lns |->
                   LET level == getPatchLevel(ln)
                       np == getNumberOfPatches(level)
                       per == [il \in 1 .. np |->
                                  SumOver([eb \in Axes |-> Cardinality(
                                      Points(toEdgeBox(level.boxes[il], eb)))],
                                      Axes)]
                   IN SumOver(per, 1 .. np)]
    IN SumOver(cnt, lns)

(* The sizes of the decomposition of the boxes the levels have at the call *)
InteriorEntriesFresh ==
    LET lns == d_coarsest_level .. d_finest_level
        cnt == [ln \in lns |->
                   LET level == getPatchLevel(ln)
                       np == getNumberOfPatches(level)
                       per == [il \in 1 .. np |->
                                  SumOver([eb \in Axes |->
                                      LET lbs == makeNonOverlappingBoxContainers(
                                                     LevelEdgeBoxes(level, eb))[il]
                                      IN SumOver([lb \in 1 .. Len(lbs) |-> BoxSize(lbs[lb])],
                                                 1 .. Len(lbs))],
                                      Axes)]
                   IN SumOver(per, 1 .. np)]
    IN SumOver(cnt, lns)

(* numberOfEntries with interior_only: the sizes of the stored             *)
(* non-overlapping boxes, times the depth of the data.                     *)
InteriorEntries ==
    LET lns == d_coarsest_level .. d_finest_level
        cnt == [ln \in lns |->
                   LET np == getNumberOfPatches(getPatchLevel(ln))
                       per == [il \in 1 .. np |->
                                  SumOver([eb \in Axes |->
                                      LET lbs == d_nonoverlapping_edge_boxes[eb][ln + 1][il]
                                      IN SumOver([lb \in 1 .. Len(lbs) |-> BoxSize(lbs[lb])],
                                                 1 .. Len(lbs))],
                                      Axes)]
                   IN SumOver(per, 1 .. np)]
    IN SumOver(cnt, lns)

(* TBOX_ASSERT(npatches == d_nonoverlapping_edge_boxes[nd][ln].size())     *)
PatchCountsAgree ==
    \A ln \in d_coarsest_level .. d_finest_level : \A nd \in Axes :
        getNumberOfPatches(getPatchLevel(ln))
            = Len(d_nonoverlapping_edge_boxes[nd][ln + 1])

(* The count of each process taken over the patches it owns.               *)
numberOfEntriesInteriorLocal(id) ==
    IF PatchDescriptor[id].type # "EdgeInt" THEN Failed("assert")
    ELSE IF ~PatchCountsAgree THEN Failed("assert")
    ELSE [pd |-> pdata, outcome |-> AllProcs("ok"),
          ret |-> [r \in Procs |->
                     LET own == UNION {{<<ln, nd, il>> : nd \in Axes,
                                          il \in {k \in 1 .. getNumberOfPatches(getPatchLevel(ln)) :
                                                     getPatchLevel(ln).owner[k] = r}} :
                                       ln \in d_coarsest_level .. d_finest_level}
                     IN PatchDescriptor[id].depth
                           * SumOver([c \in own |->
                                LET lbs == d_nonoverlapping_edge_boxes[c[2]][c[1] + 1][c[3]]
                                IN SumOver([lb \in 1 .. Len(lbs) |-> BoxSize(lbs[lb])],
                                           1 .. Len(lbs))], own)],
          log |-> AllProcs(<<>>)]

numberOfEntriesInterior(id) ==
    IF PatchDescriptor[id].type # "EdgeInt" THEN Failed("assert")
    ELSE IF ~PatchCountsAgree THEN Failed("assert")
    ELSE [pd |-> pdata, outcome |-> AllProcs("ok"),
          ret |-> AllProcs(InteriorEntries * PatchDescriptor[id].depth),
          log |-> AllProcs(<<>>)]

(* The loops of every process, then the reduction of a scalar operation.   *)
RunLoopsResult(op, per) ==
    LET accs == [r \in Procs |-> per[r].acc]
        red == (op.name \in OpsScalar) /\ UsesAllreduce
    IN [pd |-> [i \in 1 .. Len(pdata) |->
                   [il \in 1 .. Len(pdata[i]) |->
                       per[hier[i].owner[il]].pd[i][il]]],
        outcome |-> [r \in Procs |-> per[r].outcome],
        ret |-> [r \in Procs |->
                    IF op.name \in OpsScalar THEN Reduced(op, accs, r) ELSE 0],
        log |-> [r \in Procs |->
                    IF red /\ per[r].outcome = "ok"
                    THEN Append(per[r].log, Event("allreduce", -1, 0, NullData.box))
                    ELSE per[r].log]]

RunLoops(op) ==
    LET st0 == [pd |-> pdata, log |-> <<>>, outcome |-> "ok", acc |-> AccInit(op)]
        runs == {<<r, RunLoop(Visits(r, d_coarsest_level, d_finest_level), st0, op)>> :
                    r \in Procs}
    IN CHOOSE res \in {RunLoopsResult(op,
                          [r \in Procs |-> (CHOOSE x \in rs : x[1] = r)[2]]) :
                       rs \in {runs}} : TRUE

HierarchyOp(op) ==
    IF (op.name = "swapData") /\ ~SwapFactoriesOk(op.ids[1], op.ids[2])
    THEN Failed("assert")
    ELSE IF ~PreconditionHolds THEN Failed("assert")
    ELSE IF (op.name = "numberOfEntries") /\ op.interior
    THEN numberOfEntriesInterior(op.ids[1])
    ELSE RunLoops(op)

DataCall(op) ==
    /\ pc = "live"
    /\ \E res \in {HierarchyOp(op)} :
          /\ pdata' = res.pd
          /\ pc' = IF \A r \in Procs : res.outcome[r] = "ok"
                   THEN "done" ELSE "aborted"
          /\ last' = Call(op, res.outcome, res.ret, res.log)
    /\ UNCHANGED <<dbox, program, proc, nprocs, policy, hier, opvars, bound>>

(* The arguments the calls are made with.                                  *)
SingleIds == {0, 2, 3}
IdPairs == {<<0, 1>>, <<1, 0>>, <<0, 3>>}
SwapPairs == {<<0, 4>>, <<0, 1>>, <<0, 2>>, <<3, 0>>}
IdTriples == {<<0, 1, 1>>, <<1, 0, 0>>, <<0, 1, 3>>}
Alphas == {2}
Betas == {-1}

numberOfEntries(id, interior) ==
    DataCall(MkOp("numberOfEntries", <<id>>, 0, 0, interior))
copyData(dst, src, interior) ==
    DataCall(MkOp("copyData", <<dst, src>>, 0, 0, interior))
swapData(id1, id2) ==
    DataCall(MkOp("swapData", <<id1, id2>>, 0, 0, FALSE))
printData(id, interior) ==
    DataCall(MkOp("printData", <<id>>, 0, 0, interior))
setToScalar(id, alpha, interior) ==
    DataCall(MkOp("setToScalar", <<id>>, alpha, 0, interior))
scale(dst, alpha, src, interior) ==
    DataCall(MkOp("scale", <<dst, src>>, alpha, 0, interior))
addScalar(dst, src, alpha, interior) ==
    DataCall(MkOp("addScalar", <<dst, src>>, alpha, 0, interior))
add(dst, s1, s2, interior) ==
    DataCall(MkOp("add", <<dst, s1, s2>>, 0, 0, interior))
subtract(dst, s1, s2, interior) ==
    DataCall(MkOp("subtract", <<dst, s1, s2>>, 0, 0, interior))
multiply(dst, s1, s2, interior) ==
    DataCall(MkOp("multiply", <<dst, s1, s2>>, 0, 0, interior))
divide(dst, s1, s2, interior, ub) ==
    DataCall([MkOp("divide", <<dst, s1, s2>>, 0, 0, interior) EXCEPT !.ub = ub])
reciprocal(dst, src, interior, ub) ==
    DataCall([MkOp("reciprocal", <<dst, src>>, 0, 0, interior) EXCEPT !.ub = ub])
linearSum(dst, alpha, s1, beta, s2, interior) ==
    DataCall(MkOp("linearSum", <<dst, s1, s2>>, alpha, beta, interior))
axpy(dst, alpha, s1, s2, interior) ==
    DataCall(MkOp("axpy", <<dst, s1, s2>>, alpha, 0, interior))
axmy(dst, alpha, s1, s2, interior) ==
    DataCall(MkOp("axmy", <<dst, s1, s2>>, alpha, 0, interior))
abs(dst, src, interior) ==
    DataCall(MkOp("abs", <<dst, src>>, 0, 0, interior))
min(id, interior) ==
    DataCall(MkOp("min", <<id>>, 0, 0, interior))
max(id, interior) ==
    DataCall(MkOp("max", <<id>>, 0, 0, interior))
setRandomValues(id, width, low, interior, rnd) ==
    DataCall([MkOp("setRandomValues", <<id>>, width, low, interior)
                 EXCEPT !.rnd = rnd])

Init ==
    /\ nprocs \in 1 .. MaxProcs
    /\ policy \in (IF nprocs = 1 THEN {"allOnFirst"} ELSE Policies)
    /\ hier = <<>>
    /\ pdata = <<>>
    /\ pc = "new"
    /\ d_coarsest_level = -1
    /\ d_finest_level = -1
    /\ d_nonoverlapping_edge_boxes = [nd \in Axes |-> <<>>]
    /\ bound = FALSE
    /\ last = NoCall
    /\ program = <<>>
    /\ proc = <<>>
    /\ dbox = <<>>

Next ==
    \/ \E ln \in 0 .. (MaxLevels - 1), layout \in Layouts :
          MakeNewPatchLevel(ln, layout)
    \/ RemovePatchLevel
    \/ \E c \in LevelArgs, f \in LevelArgs : Construct(c, f)
    \/ \E c \in LevelArgs, f \in LevelArgs : resetLevels(c, f)
    \/ \E id \in SingleIds, io \in BOOLEAN : numberOfEntries(id, io)

DataOps ==
    \/ \E id \in SingleIds, io \in BOOLEAN : numberOfEntries(id, io)
    \/ \E pr \in IdPairs, io \in BOOLEAN : copyData(pr[1], pr[2], io)
    \/ \E pr \in SwapPairs : swapData(pr[1], pr[2])
    \/ \E id \in SingleIds, io \in BOOLEAN : printData(id, io)
    \/ \E id \in SingleIds, io \in BOOLEAN, alpha \in Alphas : setToScalar(id, alpha, io)
    \/ \E pr \in IdPairs, io \in BOOLEAN, alpha \in Alphas : scale(pr[1], alpha, pr[2], io)
    \/ \E pr \in IdPairs, io \in BOOLEAN, alpha \in Alphas : addScalar(pr[1], pr[2], alpha, io)
    \/ \E t \in IdTriples, io \in BOOLEAN : add(t[1], t[2], t[3], io)
    \/ \E t \in IdTriples, io \in BOOLEAN : subtract(t[1], t[2], t[3], io)
    \/ \E t \in IdTriples, io \in BOOLEAN : multiply(t[1], t[2], t[3], io)
    \/ \E t \in IdTriples, io \in BOOLEAN, ub \in {"trap", "zero"} :
          divide(t[1], t[2], t[3], io, ub)
    \/ \E pr \in IdPairs, io \in BOOLEAN, ub \in {"trap", "zero"} :
          reciprocal(pr[1], pr[2], io, ub)
    \/ \E t \in IdTriples, io \in BOOLEAN, alpha \in Alphas, beta \in Betas :
          linearSum(t[1], alpha, t[2], beta, t[3], io)
    \/ \E t \in IdTriples, io \in BOOLEAN, alpha \in Alphas : axpy(t[1], alpha, t[2], t[3], io)
    \/ \E t \in IdTriples, io \in BOOLEAN, alpha \in Alphas : axmy(t[1], alpha, t[2], t[3], io)
    \/ \E pr \in IdPairs, io \in BOOLEAN : abs(pr[1], pr[2], io)
    \/ \E id \in SingleIds, io \in BOOLEAN : min(id, io)
    \/ \E id \in SingleIds, io \in BOOLEAN : max(id, io)
    \/ \E id \in SingleIds, io \in BOOLEAN, rnd \in 0 .. 1, alpha \in Alphas, beta \in Betas :
          setRandomValues(id, alpha, beta, io, rnd)

Spec == Init /\ [][Next]_vars

(* The operations of the operator on a hierarchy that is built and         *)
(* rebuilt only until the operator is bound.                               *)
BuildLevel(ln, layout) == ~bound /\ MakeNewPatchLevel(ln, layout)
DropLevel == ~bound /\ RemovePatchLevel

NextOps ==
    \/ \E ln \in 0 .. (MaxLevels - 1), layout \in Layouts : BuildLevel(ln, layout)
    \/ DropLevel
    \/ \E c \in LevelArgs, f \in LevelArgs : Construct(c, f)
    \/ \E c \in LevelArgs, f \in LevelArgs : resetLevels(c, f)
    \/ DataOps

SpecOps == Init /\ [][NextOps]_vars

(* The operator on a hierarchy of one level that is regridded, replaced    *)
(* and counted at any time; the regridded level may also come with another *)
(* number of patches.                                                      *)
RegridLayouts == Layouts \cup {<<BoxA>>}

NextRegrid ==
    \/ \E layout \in RegridLayouts : MakeNewPatchLevel(0, layout)
    \/ RemovePatchLevel
    \/ \E c \in LevelArgs, f \in LevelArgs : Construct(c, f)
    \/ \E c \in LevelArgs, f \in LevelArgs : resetLevels(c, f)
    \/ \E layout \in RegridLayouts : setPatchHierarchy(<<layout>>)
    \/ \E id \in SingleIds : numberOfEntries(id, TRUE)

SpecRegrid == Init /\ [][NextRegrid]_vars

(* The decomposition in resetLevels of one level given by any boxes of a   *)
(* small index space, overlapping or not, before its data is allocated.    *)
MaxBoxes == 3

GridBoxes ==
    {b \in {Bx(x0, y0, x1, y1) : x0 \in 0 .. 1, y0 \in 0 .. 1,
                                  x1 \in 0 .. 1, y1 \in 0 .. 1} : ~BoxEmpty(b)}

BoxSeqs == UNION {[1 .. n -> GridBoxes] : n \in 1 .. MaxBoxes}

GeomArgs == {-1, 0}

InitGeom ==
    /\ nprocs = 1
    /\ policy = "allOnFirst"
    /\ \E boxes \in BoxSeqs :
          /\ hier = <<[boxes |-> boxes, owner |-> [il \in 1 .. Len(boxes) |-> 1]]>>
          /\ pdata = <<[il \in 1 .. Len(boxes) |-> [id \in Ids |-> NullData]]>>
    /\ pc = "new"
    /\ d_coarsest_level = -1
    /\ d_finest_level = -1
    /\ d_nonoverlapping_edge_boxes = [nd \in Axes |-> <<>>]
    /\ bound = FALSE
    /\ last = NoCall
    /\ program = <<>>
    /\ proc = <<>>
    /\ dbox = <<>>

NextGeom ==
    \/ \E c \in GeomArgs, f \in GeomArgs : Construct(c, f)
    \/ \E c \in GeomArgs, f \in GeomArgs : resetLevels(c, f)

SpecGeom == InitGeom /\ [][NextGeom]_vars

(* Calls made one after another on the same operator: setToScalar, min    *)
(* and max on a hierarchy whose levels may also hold no patch, the scalar  *)
(* being any int, the most negative one included.                          *)
SeqLayouts == {<<>>, <<BoxA, BoxB>>}

Scalars == {7, -IntMax - 1}

NextSeq ==
    \/ \E ln \in 0 .. (MaxLevels - 1), layout \in SeqLayouts : BuildLevel(ln, layout)
    \/ \E c \in LevelArgs, f \in LevelArgs : Construct(c, f)
    \/ \E io \in BOOLEAN, alpha \in Scalars : setToScalar(0, alpha, io)
    \/ \E io \in BOOLEAN : min(0, io)
    \/ \E io \in BOOLEAN : max(0, io)
    \/ Continue

SpecSeq == Init /\ [][NextSeq]_vars

(* Swaps made one after another, between calls that change the contents.   *)
NextSwap ==
    \/ \E ln \in 0 .. (MaxLevels - 1), layout \in Layouts : BuildLevel(ln, layout)
    \/ \E c \in LevelArgs, f \in LevelArgs : Construct(c, f)
    \/ \E io \in BOOLEAN, alpha \in Alphas : setToScalar(0, alpha, io)
    \/ \E pr \in SwapPairs : swapData(pr[1], pr[2])
    \/ Continue

SpecSwap == Init /\ [][NextSwap]_vars

(* Elementwise calls made one after another: the contents are prepared by  *)
(* setToScalar calls, then copied, then combined by subtract or linearSum. *)
(* The arrays named differ in ghost cell width (ids 0 and 1) or agree in   *)
(* it (ids 0 and 4); a source may be the destination.                      *)
AlgLayouts == {<<BoxA, BoxB>>}
AlgPairs == {<<0, 1>>, <<1, 0>>, <<0, 4>>}
AlgTriples == {<<0, 1, 4>>, <<0, 0, 1>>, <<1, 0, 0>>}

NextAlg ==
    \/ \E ln \in 0 .. (MaxLevels - 1), layout \in AlgLayouts : BuildLevel(ln, layout)
    \/ \E c \in LevelArgs, f \in LevelArgs : Construct(c, f)
    \/ \E io \in BOOLEAN, alpha \in Scalars :
          (last.op # "copyData") /\ setToScalar(1, alpha, io)
    \/ \E pr \in AlgPairs, io \in BOOLEAN :
          (last.op # "copyData") /\ copyData(pr[1], pr[2], io)
    \/ \E pr \in AlgPairs, io \in BOOLEAN : subtract(pr[1], pr[1], pr[2], io)
    \/ \E t \in AlgTriples, io \in BOOLEAN : subtract(t[1], t[2], t[3], io)
    \/ \E t \in AlgTriples, io \in BOOLEAN : linearSum(t[1], 1, t[2], -1, t[3], io)
    \/ (last.op \in {"setToScalar", "copyData"}) /\ Continue

SpecAlg == Init /\ [][NextAlg]_vars

(***************************************************************************)
(* The scalar operations process by process.  Every process runs the loops *)
(* of its call on its own data; the one point where it waits for the other *)
(* processes is the all-reduce.  proc[r] tells where process r is: its     *)
(* position at, the number k of calls it has returned from, the            *)
(* contributions it has passed to the all-reduces it entered, and the      *)
(* values its calls returned.                                              *)
(***************************************************************************)
ScalarCalls ==
    {MkOp("min", <<0>>, 0, 0, FALSE), MkOp("max", <<0>>, 0, 0, FALSE),
     MkOp("numberOfEntries", <<0>>, 0, 0, FALSE)}

(* The sequences of distinct calls from S.                                 *)
RECURSIVE Orders(_)
Orders(S) ==
    {<<>>} \cup UNION {{<<x>> \o t : t \in Orders(S \ {x})} : x \in S}

Reverse(sq) == [i \in 1 .. Len(sq) |-> sq[Len(sq) + 1 - i]]

(* Every process is given the calls of one sequence; some processes may    *)
(* issue them in the reverse order.                                        *)
Programs ==
    {[r \in Procs |-> IF r \in S THEN Reverse(p) ELSE p] :
        p \in Orders(ScalarCalls), S \in SUBSET (Procs \ {1})}

IdleProc == [at |-> "idle", k |-> 0, sent |-> <<>>, rets |-> <<>>]

InitMpi ==
    /\ nprocs \in 1 .. MaxProcs
    /\ policy \in (IF nprocs = 1 THEN {"allOnFirst"} ELSE Policies)
    /\ hier = <<NewLevel(<<BoxA, BoxB>>)>>
    /\ pdata = <<NewLevelData(0, <<BoxA, BoxB>>)>>
    /\ pc = "new"
    /\ d_coarsest_level = -1
    /\ d_finest_level = -1
    /\ d_nonoverlapping_edge_boxes = [nd \in Axes |-> <<>>]
    /\ bound = FALSE
    /\ last = NoCall
    /\ program \in Programs
    /\ proc = [r \in Procs |-> IdleProc]
    /\ dbox = <<>>

(* The call process r is in, or is to issue next.                          *)
CurrentCall(r) == program[r][proc[r].k + 1]

(* The one element of a singleton: its argument is evaluated once, where a *)
(* definition would be evaluated again at every use.                       *)
Only(S) == CHOOSE x \in S : TRUE

(* The value the single-patch operator of a scalar call yields for the     *)
(* patch v = <<ln, il>>; scalar calls write no patch data.                 *)
PatchValue(v, op) ==
    Only({Only({PatchOp(op, hs, box).val :
                   box \in {RegionBox(op, getPatchLevel(v[1]).boxes[v[2]], hs)}}) :
             hs \in {Handles(pdata[v[1] + 1][v[2]], op)}})

RECURSIVE FoldPatches(_, _, _)
FoldPatches(vs, acc, op) ==
    IF vs = <<>> THEN acc
    ELSE Only({FoldPatches(Tail(vs), nxt, op) :
                  nxt \in {Accumulate(op, acc, Only({PatchValue(v, op) : v \in {Head(vs)}}))}})

(* The loops of a scalar call on process r: TBOX_ASSERT(d) for every patch *)
(* visited, and the accumulation of the patch values.                      *)
LocalLoops(r, op) ==
    Only({[log |-> vs,
           outcome |-> IF \E i \in 1 .. Len(vs) :
                             IsNull(Handles(pdata[vs[i][1] + 1][vs[i][2]], op)[1])
                       THEN "assert" ELSE "ok",
           acc |-> FoldPatches(vs, AccInit(op), op)] :
             vs \in {Visits(r, d_coarsest_level, d_finest_level)}})

(* Only a process that has visited a patch issues the all-reduce.          *)
IssuesAllreduceIfVisited(st) == UsesAllreduce /\ (st.log # <<>>)

(* if (mpi.getSize() > 1) { mpi.Allreduce(...) }: whether the process      *)
(* whose loops ended in st issues the all-reduce.                          *)
IssuesAllreduce(st) == UsesAllreduce

(* The value returned together with an error status when the all-reduce    *)
(* combined contributions of different calls.                              *)
ReturnedChecking(val, from) ==
    [val |-> val, from |-> from,
     error |-> \E q \in DOMAIN from : from[q] # from[1]]

(* return global_x: the value of the call, and the calls the contributions *)
(* it was reduced from belonged to.  No status is returned with it.        *)
Returned(val, from) == [val |-> val, from |-> from, error |-> FALSE]

(* Process r issues its next call: the assertions and the loops, then      *)
(* either the all-reduce is entered or the local value is returned.        *)
BeginCall(r) ==
    /\ pc = "live"
    /\ proc[r].at = "idle"
    /\ proc[r].k < Len(program[r])
    /\ \E st \in {IF PreconditionHolds THEN LocalLoops(r, CurrentCall(r))
                  ELSE [outcome |-> "assert"]} :
          proc' = [proc EXCEPT ![r] =
                      IF st.outcome # "ok" THEN [@ EXCEPT !.at = "aborted"]
                      ELSE IF IssuesAllreduce(st)
                      THEN [@ EXCEPT !.at = "reducing",
                                     !.sent = Append(@, [acc |-> st.acc,
                                                         op |-> CurrentCall(r).name])]
                      ELSE [@ EXCEPT !.k = @ + 1,
                                     !.rets = Append(@, Returned(st.acc,
                                                  <<CurrentCall(r).name>>))]]
    /\ UNCHANGED <<dbox, program, nprocs, policy, hier, pdata, pc, opvars, bound, last>>

(* Every process has entered the all-reduce process r is waiting in.       *)
AllEntered(r) == \A q \in Procs : Len(proc[q].sent) >= Len(proc[r].sent)

(* The contributions to the all-reduce process r is waiting in, and the    *)
(* calls they come from.                                                   *)
Contributions(r) == [q \in Procs |-> proc[q].sent[Len(proc[r].sent)].acc]
ContributingCalls(r) == [q \in Procs |-> proc[q].sent[Len(proc[r].sent)].op]

Mismatched(r) == \E q \in Procs : ContributingCalls(r)[q] # ContributingCalls(r)[r]

(* The MPI datatype a call reduces: numberOfEntries an unsigned long, min  *)
(* and max an int.                                                         *)
Datatype(name) == IF name = "numberOfEntries" THEN "MPI_UNSIGNED_LONG" ELSE "MPI_INT"

(* What process r receives: the reduction of the contributions under the   *)
(* operation of its own call; no defined value when the processes passed   *)
(* buffers of different datatypes.                                         *)
Received(r) ==
    IF \E q \in Procs : Datatype(ContributingCalls(r)[q]) # Datatype(ContributingCalls(r)[r])
    THEN "undefined"
    ELSE Allreduce(CurrentCall(r), Contributions(r))

(* tbox::SAMRAI_MPI::Allreduce returns on process r: every process has     *)
(* entered the all-reduce with the same number, and r gets the reduction   *)
(* of their contributions under the operation of its own call.             *)
EndAllreduce(r) ==
    /\ pc = "live"
    /\ proc[r].at = "reducing"
    /\ AllEntered(r)
    /\ proc' = [proc EXCEPT ![r] =
                   [@ EXCEPT !.at = "idle",
                             !.k = @ + 1,
                             !.rets = Append(@, Returned(Received(r),
                                                         ContributingCalls(r)))]]
    /\ UNCHANGED <<dbox, program, nprocs, policy, hier, pdata, pc, opvars, bound, last>>

(* An all-reduce whose calls do not match need not return at all.          *)
Hang(r) ==
    /\ pc = "live"
    /\ proc[r].at = "reducing"
    /\ AllEntered(r)
    /\ Mismatched(r)
    /\ proc' = [proc EXCEPT ![r] = [@ EXCEPT !.at = "hung"]]
    /\ UNCHANGED <<dbox, program, nprocs, policy, hier, pdata, pc, opvars, bound, last>>

NextMpi ==
    \/ \E c \in GeomArgs, f \in GeomArgs : Construct(c, f)
    \/ \E r \in Procs : BeginCall(r)
    \/ \E r \in Procs : EndAllreduce(r)
    \/ \E r \in Procs : Hang(r)

SpecMpi == InitMpi /\ [][NextMpi]_vars

(* Every process goes on when it can, and an all-reduce that every process *)
(* has entered with the same call returns.                                 *)
FairMpi ==
    /\ \A r \in 1 .. MaxProcs : WF_vars(r \in Procs /\ BeginCall(r))
    /\ \A r \in 1 .. MaxProcs : WF_vars(r \in Procs /\ EndAllreduce(r) /\ ~Mismatched(r))

SpecMpiFair == InitMpi /\ [][NextMpi]_vars /\ FairMpi

(***************************************************************************)
(* Patch data that is allocated on some levels only.  The data of an id is *)
(* allocated and deallocated level by level; on a patch of a level where   *)
(* it is not allocated, getPatchData(id) yields a null pointer.            *)
(***************************************************************************)
AllocIds == {0, 1}

deallocatePatchData(ln, id) ==
    /\ pc = "new"
    /\ ln < getNumberOfLevels
    /\ ~IsNull(pdata[ln + 1][1][id])
    /\ pdata' = [pdata EXCEPT ![ln + 1] =
                    [il \in DOMAIN @ |-> [@[il] EXCEPT ![id] = NullData]]]
    /\ last' = NoCall
    /\ UNCHANGED <<dbox, program, proc, nprocs, policy, hier, pc, opvars, bound>>

NextAlloc ==
    \/ \E ln \in 0 .. (MaxLevels - 1), layout \in AlgLayouts : BuildLevel(ln, layout)
    \/ \E ln \in 0 .. (MaxLevels - 1), id \in AllocIds : deallocatePatchData(ln, id)
    \/ \E c \in LevelArgs, f \in LevelArgs : Construct(c, f)
    \/ \E pr \in AlgPairs, io \in BOOLEAN : copyData(pr[1], pr[2], io)
    \/ \E io \in BOOLEAN, alpha \in Alphas : setToScalar(1, alpha, io)
    \/ \E t \in AlgTriples, io \in BOOLEAN : subtract(t[1], t[2], t[3], io)

SpecAlloc == Init /\ [][NextAlloc]_vars

(***************************************************************************)
(* tbox::DatabaseBox: a dimension and two corner arrays of MAX_DIM_VAL     *)
(* components each.  Two objects are followed through their constructors,  *)
(* copy assignment, setDim and the writes through lower(i) and upper(i).   *)
(***************************************************************************)
(* The largest dimension the build supports: that of the hierarchy.        *)
MAX_DIM_VAL == DimVal
Comps == 0 .. (MAX_DIM_VAL - 1)

(* The coordinates the callers write, and the corner arrays they pass.     *)
Coords == {0, 1}
Corners == [Comps -> Coords]

DatabaseBox_POD(dim, lo, hi) == [d_dimension |-> dim, d_lo |-> lo, d_hi |-> hi]

(* Every value of d_data with a dimension the assertions admit.            *)
DatabaseBoxes ==
    {DatabaseBox_POD(dim, lo, hi) : dim \in 0 .. MAX_DIM_VAL, lo \in Corners, hi \in Corners}

(* constexpr DatabaseBox() : d_data{}: every member is zero.               *)
DefaultDatabaseBox ==
    DatabaseBox_POD(0, [i \in Comps |-> 0], [i \in Comps |-> 0])

(* DatabaseBox(dim, lower, upper): the components below the dimension are  *)
(* copied, the others set to zero.                                         *)
NewDatabaseBox(dim, lower, upper) ==
    DatabaseBox_POD(dim,
                    [i \in Comps |-> IF i < dim THEN lower[i] ELSE 0],
                    [j \in Comps |-> IF j < dim THEN upper[j] ELSE 0])

(* The loop of empty(), from component i on.                               *)
RECURSIVE emptyFrom(_, _)
emptyFrom(b, i) ==
    IF i >= b.d_dimension THEN FALSE
    ELSE IF b.d_hi[i] < b.d_lo[i] THEN TRUE
    ELSE emptyFrom(b, i + 1)

(* empty() looking at every component of the arrays.                       *)
emptyOverAllComponents(b) ==
    (b.d_dimension = 0) \/ (\E i \in Comps : b.d_hi[i] < b.d_lo[i])

empty(b) == IF b.d_dimension = 0 THEN TRUE ELSE emptyFrom(b, 0)

(* The loop of operator==, from component i on.                            *)
RECURSIVE operatorEqualsFrom(_, _, _)
operatorEqualsFrom(a, b, i) ==
    IF i >= a.d_dimension THEN TRUE
    ELSE IF (a.d_lo[i] # b.d_lo[i]) \/ (a.d_hi[i] # b.d_hi[i]) THEN FALSE
    ELSE operatorEqualsFrom(a, b, i + 1)

(* operator== comparing the whole of d_data.                               *)
operatorEqualsAllComponents(a, b) == a = b

(* operator==                                                              *)
operatorEquals(a, b) ==
    IF a.d_dimension # b.d_dimension THEN FALSE ELSE operatorEqualsFrom(a, b, 0)

InitBox ==
    /\ nprocs = 1
    /\ policy = "allOnFirst"
    /\ hier = <<>>
    /\ pdata = <<>>
    /\ pc = "live"
    /\ d_coarsest_level = -1
    /\ d_finest_level = -1
    /\ d_nonoverlapping_edge_boxes = [nd \in Axes |-> <<>>]
    /\ bound = FALSE
    /\ last = NoCall
    /\ program = <<>>
    /\ proc = <<>>
    /\ dbox = <<DefaultDatabaseBox, DefaultDatabaseBox>>

boxvars == <<nprocs, policy, hier, pdata, opvars, bound, last, program, proc>>

(* A failed TBOX_ASSERT aborts where assertions are compiled in; where     *)
(* they are not, the program goes on into undefined behaviour.             *)
AssertionFails ==
    /\ pc' \in {"aborted", "undefined"}
    /\ UNCHANGED <<dbox, boxvars>>

(* dbox[k] = DatabaseBox(dim, lower, upper)                                *)
ConstructDatabaseBox(k, dim, lower, upper) ==
    /\ pc = "live"
    /\ IF (dim >= 0) /\ (dim <= MAX_DIM_VAL)
       THEN /\ dbox' = [dbox EXCEPT ![k] = NewDatabaseBox(dim, lower, upper)]
            /\ UNCHANGED <<pc, boxvars>>
       ELSE AssertionFails

(* dbox[k] = dbox[j]: the defaulted copy assignment.                       *)
AssignDatabaseBox(k, j) ==
    /\ pc = "live"
    /\ dbox' = [dbox EXCEPT ![k] = dbox[j]]
    /\ UNCHANGED <<pc, boxvars>>

(* dbox[k].setDim(dim): the dimension is replaced, the arrays are kept.    *)
setDim(k, dim) ==
    /\ pc = "live"
    /\ IF (dim >= 0) /\ (dim <= MAX_DIM_VAL)
       THEN /\ dbox' = [dbox EXCEPT ![k].d_dimension = dim]
            /\ UNCHANGED <<pc, boxvars>>
       ELSE AssertionFails

(* dbox[k].lower(i) = v.  With i at or above the dimension the assertion   *)
(* fails; without assertions the write goes to d_lo[i] when the array has  *)
(* a component i, and anywhere when it has not.                            *)
lower(k, i, v) ==
    /\ pc = "live"
    /\ \/ /\ (i >= 0) /\ (i < dbox[k].d_dimension)
          /\ dbox' = [dbox EXCEPT ![k].d_lo[i] = v]
          /\ UNCHANGED <<pc, boxvars>>
       \/ /\ ~((i >= 0) /\ (i < dbox[k].d_dimension))
          /\ \/ AssertionFails /\ ((pc' = "aborted") \/ (i \notin Comps))
             \/ /\ i \in Comps
                /\ dbox' = [dbox EXCEPT ![k].d_lo[i] = v]
                /\ UNCHANGED <<pc, boxvars>>

(* dbox[k].upper(i) = v                                                    *)
upper(k, i, v) ==
    /\ pc = "live"
    /\ \/ /\ (i >= 0) /\ (i < dbox[k].d_dimension)
          /\ dbox' = [dbox EXCEPT ![k].d_hi[i] = v]
          /\ UNCHANGED <<pc, boxvars>>
       \/ /\ ~((i >= 0) /\ (i < dbox[k].d_dimension))
          /\ \/ AssertionFails /\ ((pc' = "aborted") \/ (i \notin Comps))
             \/ /\ i \in Comps
                /\ dbox' = [dbox EXCEPT ![k].d_hi[i] = v]
                /\ UNCHANGED <<pc, boxvars>>

NextBox ==
    \/ \E k \in 1 .. 2, dim \in 0 .. (MAX_DIM_VAL + 1), lo \in Corners, hi \in Corners :
          ConstructDatabaseBox(k, dim, lo, hi)
    \/ \E k \in 1 .. 2, j \in 1 .. 2 : AssignDatabaseBox(k, j)
    \/ \E k \in 1 .. 2, dim \in 0 .. (MAX_DIM_VAL + 1) : setDim(k, dim)
    \/ \E k \in 1 .. 2, i \in -1 .. MAX_DIM_VAL, v \in Coords : lower(k, i, v)
    \/ \E k \in 1 .. 2, i \in -1 .. MAX_DIM_VAL, v \in Coords : upper(k, i, v)

SpecBox == InitBox /\ [][NextBox]_vars

(***************************************************************************)
(* Properties.                                                             *)
(***************************************************************************)
AllAsserted == \A r \in Procs : last.outcome[r] = "assert"
AllOk == \A r \in Procs : last.outcome[r] = "ok"

(* C1: a data-touching operation called while the operator is Unbound      *)
(* (built with a negative level argument on a hierarchy without levels,    *)
(* and no resetLevels has succeeded since) fails its precondition          *)
(* assertion on every process before any patch is visited, and leaves all  *)
(* patch data as it was.                                                   *)
C1_UnboundFailsFast ==
    [][(pc = "live" /\ ~bound /\ last'.op \in OpsAll)
          => /\ pc' = "aborted"
             /\ \A r \in Procs :
                   last'.outcome[r] = "assert" /\ last'.log[r] = <<>>
             /\ pdata' = pdata]_vars

(* An Unbound operator with a non-negative coarsest level, called on a     *)
(* hierarchy that has levels by then.                                      *)
C1_Witness ==
    /\ last.op = "setToScalar"
    /\ ~bound
    /\ d_coarsest_level = 0
    /\ getNumberOfLevels > 0
    /\ AllAsserted

(* The decomposition of level ln along axis nd derived from the boxes the  *)
(* level has now.                                                          *)
CurrentDecomposition(ln, nd) ==
    makeNonOverlappingBoxContainers(
        [i \in 1 .. Len(hier[ln + 1].boxes) |-> toEdgeBox(hier[ln + 1].boxes[i], nd)])

(* C2: after a successful resetLevels(c, f), from Unbound or from Bound,   *)
(* the operator is Bound with range exactly [c, f], and for every axis and *)
(* every level of [c, f] the stored decomposition is the one derived from  *)
(* the current boxes of that level.                                        *)
C2_ResetRebinds ==
    (last.op = "resetLevels" /\ AllOk)
        => /\ bound
           /\ d_coarsest_level = last.args[1]
           /\ d_finest_level = last.args[2]
           /\ LevelRangeValid(d_coarsest_level, d_finest_level)
           /\ \A nd \in Axes :
                 /\ Len(d_nonoverlapping_edge_boxes[nd]) = d_finest_level + 1
                 /\ \A ln \in d_coarsest_level .. d_finest_level :
                       d_nonoverlapping_edge_boxes[nd][ln + 1]
                           = CurrentDecomposition(ln, nd)

(* A reset of a Bound operator to [1, 1] whose slot of level 0, computed   *)
(* for an earlier range, no longer describes level 0.                      *)
C2_Witness ==
    /\ last.op = "resetLevels"
    /\ AllOk
    /\ d_coarsest_level = 1
    /\ d_nonoverlapping_edge_boxes[0][1] # <<>>
    /\ d_nonoverlapping_edge_boxes[0][1] # CurrentDecomposition(0, 0)

(* C3: resetLevels with a range that is not valid for the hierarchy fails  *)
(* its assertion and leaves the stored coarsest level, finest level and    *)
(* decompositions exactly as they were.                                    *)
C3_InvalidResetKeepsState ==
    [][(pc = "live" /\ last'.op = "resetLevels"
            /\ ~LevelRangeValid(last'.args[1], last'.args[2]))
          => /\ pc' = "aborted"
             /\ \A r \in Procs : last'.outcome[r] = "assert"
             /\ bound' = bound
             /\ opvars' = opvars]_vars

(* A failed reset of a Bound operator, which keeps its range and slots.    *)
C3_Witness ==
    /\ last.op = "resetLevels"
    /\ AllAsserted
    /\ bound
    /\ last.args # <<d_coarsest_level, d_finest_level>>
    /\ d_nonoverlapping_edge_boxes[0] # <<>>

(* The patches process r visited, in the order of its log.                 *)
PatchVisits(log) ==
    LET pe == SelectSeq(log, LAMBDA ev : ev.kind = "patch")
    IN [i \in 1 .. Len(pe) |-> <<pe[i].ln, pe[i].il>>]

(* The patches of the levels of the bound range that process r owns.       *)
OwnedInRange(r) ==
    UNION {{<<ln, il>> : il \in {k \in 1 .. Len(hier[ln + 1].boxes) :
                                     hier[ln + 1].owner[k] = r}} :
           ln \in {l \in d_coarsest_level .. d_finest_level :
                      l >= 0 /\ l < Len(hier)}}

LexLess(u, v) == (u[1] < v[1]) \/ (u[1] = v[1] /\ u[2] < v[2])

(* C4: an operation of a Bound operator applies its single-patch operator  *)
(* on every process to patches in strictly ascending (level, patch)        *)
(* order, hence to none twice, to none the process does not own and to     *)
(* none outside [c, f]; a call that completes has visited every owned      *)
(* patch of every level of [c, f]; the data of patches not visited, in     *)
(* particular on levels outside the range, is unchanged.                   *)
C4_VisitsExactlyRange ==
    [][(pc = "live" /\ bound /\ last'.op \in OpsAll)
          => /\ \A r \in Procs :
                   LET vis == PatchVisits(last'.log[r])
                       seen == {vis[i] : i \in 1 .. Len(vis)}
                   IN /\ \A i, j \in 1 .. Len(vis) :
                             (i < j) => LexLess(vis[i], vis[j])
                      /\ seen \subseteq OwnedInRange(r)
                      /\ (last'.outcome[r] = "ok"
                             /\ ~(last'.op = "numberOfEntries" /\ last'.interior))
                            => (seen = OwnedInRange(r))
             /\ \A i \in 1 .. Len(pdata) : \A il \in 1 .. Len(pdata[i]) :
                   (\A r \in Procs : \A k \in 1 .. Len(last'.log[r]) :
                        <<last'.log[r][k].ln, last'.log[r][k].il>> # <<i - 1, il>>)
                      => (pdata'[i][il] = pdata[i][il])
             /\ \A i \in 1 .. Len(pdata) :
                   ((i - 1 < d_coarsest_level) \/ (i - 1 > d_finest_level))
                      => (pdata'[i] = pdata[i])]_vars

(* A completed add over [0, 0] of a two-level hierarchy on two processes   *)
(* that own one patch of the level each.                                   *)
C4_Witness ==
    /\ last.op = "add"
    /\ pc = "done"
    /\ nprocs = 2
    /\ policy = "roundRobin"
    /\ d_coarsest_level = 0
    /\ d_finest_level = 0
    /\ getNumberOfLevels = 2
    /\ \A r \in Procs : Len(last.log[r]) = 1

(* C5: the region handed to the single-patch operator is the patch's own   *)
(* box when interior_only is set, and otherwise the ghost box of the       *)
(* destination array (the first-named id), whatever the ghost widths of    *)
(* the sources.                                                            *)
C5_RegionBox ==
    (last.op \in (OpsAll \ {"swapData"}))
        => \A r \in Procs : \A k \in 1 .. Len(last.log[r]) :
              LET ev == last.log[r][k]
                  pbox == hier[ev.ln + 1].boxes[ev.il]
              IN (ev.kind = "patch")
                    => ev.box = IF last.interior THEN pbox
                                ELSE Grow(pbox, PatchDescriptor[last.args[1]].ghosts)

(* A completed linearSum over ghost regions whose sources have a narrower  *)
(* ghost width than its destination.                                       *)
C5_Witness ==
    /\ last.op = "linearSum"
    /\ ~last.interior
    /\ pc = "done"
    /\ PatchDescriptor[last.args[1]].ghosts # PatchDescriptor[last.args[3]].ghosts
    /\ \E r \in Procs : last.log[r] # <<>>

(* The values process r meets in its own patches of the bound range.       *)
LocalValues(r, id, interior) ==
    UNION {LET d == pdata[v[1] + 1][v[2]][id]
               pbox == hier[v[1] + 1].boxes[v[2]]
           IN {d.val[e] : e \in {x \in DOMAIN d.val :
                   interior => x[2] \in Points(toEdgeBox(pbox, x[1]))}} :
           v \in OwnedInRange(r)}

LocalMin(r, id, interior) == MinOf(LocalValues(r, id, interior) \cup {IntMax})
LocalMax(r, id, interior) == MaxOf(LocalValues(r, id, interior) \cup {-IntMax})

(* C6: for any number of processes and any distribution of the patches,    *)
(* a completed min (max) returns on every process the same value, the      *)
(* minimum (maximum) of the local partial results of all processes.        *)
C6_MinMaxAgree ==
    (last.op \in {"min", "max"} /\ pc = "done")
        => \A r \in Procs :
              last.ret[r] =
                 IF last.op = "min"
                 THEN MinOf({LocalMin(q, last.args[1], last.interior) : q \in Procs})
                 ELSE MaxOf({LocalMax(q, last.args[1], last.interior) : q \in Procs})

(* A completed min on two processes whose local minima differ.             *)
C6_Witness ==
    /\ last.op = "min"
    /\ pc = "done"
    /\ nprocs = 2
    /\ LocalMin(1, last.args[1], last.interior) # LocalMin(2, last.args[1], last.interior)
    /\ LocalValues(2, last.args[1], last.interior) # {}

(* The number of all-reduce events in a log.                               *)
Allreduces(log) == Len(SelectSeq(log, LAMBDA ev : ev.kind = "allreduce"))

(* C7 as stated: every completed scalar operation (numberOfEntries with    *)
(* either interior_only value, min, max) has issued exactly one            *)
(* all-reduce on every process, as its last step, for every process count. *)
C7_OneAllreduceAlways ==
    (last.op \in OpsScalar /\ pc = "done")
        => \A r \in Procs :
              /\ Allreduces(last.log[r]) = 1
              /\ last.log[r][Len(last.log[r])].kind = "allreduce"

(* C7: a completed min, max or numberOfEntries over ghost regions has      *)
(* issued exactly one all-reduce on every process, after the visit of the  *)
(* last owned patch, when there is more than one process, and none when    *)
(* there is one process; numberOfEntries with interior_only issues none    *)
(* for any process count.                                                  *)
C7_OneAllreduceWhenParallel ==
    (last.op \in OpsScalar /\ pc = "done")
        => \A r \in Procs :
              IF (nprocs > 1) /\ ~(last.op = "numberOfEntries" /\ last.interior)
              THEN /\ Allreduces(last.log[r]) = 1
                   /\ last.log[r][Len(last.log[r])].kind = "allreduce"
                   /\ Len(last.log[r]) = Cardinality(OwnedInRange(r)) + 1
              ELSE Allreduces(last.log[r]) = 0

(* A completed count over ghost regions on two processes, each of which    *)
(* visited a patch before its all-reduce.                                  *)
C7_Witness ==
    /\ last.op = "numberOfEntries"
    /\ ~last.interior
    /\ pc = "done"
    /\ nprocs = 2
    /\ \A r \in Procs :
          /\ Len(last.log[r]) >= 2
          /\ last.log[r][Len(last.log[r])].kind = "allreduce"

(* The number of array entries, ghosts included, of the patches in S.      *)
GhostEntries(S, id) ==
    SumOver([v \in S |-> Cardinality(DOMAIN pdata[v[1] + 1][v[2]][id].val)], S)

(* The number of distinct edge index points of the levels of the range.    *)
DistinctEdgeEntities ==
    LET lns == d_coarsest_level .. d_finest_level
        cells == lns \X Axes
    IN SumOver([c \in cells |->
                   Cardinality(UNION {Points(toEdgeBox(hier[c[1] + 1].boxes[il], c[2])) :
                                         il \in 1 .. Len(hier[c[1] + 1].boxes)})],
               cells)

(* C8: with one process, min, max and numberOfEntries return the result    *)
(* of the direct sequential accumulation over all patches of the levels    *)
(* of the range, which is also what an all-reduce over that one process    *)
(* yields.                                                                 *)
C8_SingleProcessDirect ==
    (nprocs = 1 /\ last.op \in OpsScalar /\ pc = "done")
        => LET id == last.args[1]
               direct ==
                  CASE last.op = "min" -> LocalMin(1, id, last.interior)
                    [] last.op = "max" -> LocalMax(1, id, last.interior)
                    [] OTHER ->
                          IF last.interior
                          THEN PatchDescriptor[id].depth * DistinctEdgeEntities
                          ELSE GhostEntries(OwnedInRange(1), id)
           IN /\ last.ret[1] = direct
              /\ last.ret[1] = Allreduce([name |-> last.op], <<direct>>)

(* A completed max of one process over the four patches of two levels.     *)
C8_Witness ==
    /\ nprocs = 1
    /\ last.op = "max"
    /\ pc = "done"
    /\ Len(last.log[1]) = 4
    /\ last.ret[1] > -IntMax

(* The stored decomposition of every level of the range describes the      *)
(* boxes the level has now.                                                *)
DecompositionCurrent ==
    \A nd \in Axes : \A ln \in d_coarsest_level .. d_finest_level :
        d_nonoverlapping_edge_boxes[nd][ln + 1] = CurrentDecomposition(ln, nd)

(* C9: numberOfEntries(id, true) of a Bound operator whose decomposition   *)
(* is current returns on every process the depth of the data times the     *)
(* number of distinct edge index points, summed over the axes and the      *)
(* levels of the range: a point on the boundary shared by two patches is   *)
(* counted once.                                                           *)
C9_InteriorCountsDistinct ==
    (last.op = "numberOfEntries" /\ last.interior /\ pc = "done"
        /\ DecompositionCurrent)
        => \A r \in Procs :
              last.ret[r] = PatchDescriptor[last.args[1]].depth * DistinctEdgeEntities

(* A completed interior count of data of depth 2 on a level whose two      *)
(* patches share edge index points.                                        *)
C9_Witness ==
    /\ last.op = "numberOfEntries"
    /\ last.interior
    /\ pc = "done"
    /\ DecompositionCurrent
    /\ PatchDescriptor[last.args[1]].depth = 2
    /\ \E ln \in d_coarsest_level .. d_finest_level : \E nd \in Axes :
          Points(toEdgeBox(hier[ln + 1].boxes[1], nd))
             \cap Points(toEdgeBox(hier[ln + 1].boxes[2], nd)) # {}

(* C10: numberOfEntries(id, false) returns on every process the sum, over  *)
(* all processes, all levels of the range and all patches, of the number   *)
(* of entries of the patch's array over its ghost box; entries of          *)
(* overlapping ghost regions are counted once per patch.                   *)
C10_GhostCountsAll ==
    (last.op = "numberOfEntries" /\ ~last.interior /\ pc = "done")
        => \A r \in Procs :
              last.ret[r] = GhostEntries(UNION {OwnedInRange(q) : q \in Procs},
                                         last.args[1])

(* A completed ghost count on two processes that own one patch each of a   *)
(* level whose ghost boxes overlap.                                        *)
C10_Witness ==
    /\ last.op = "numberOfEntries"
    /\ ~last.interior
    /\ pc = "done"
    /\ nprocs = 2
    /\ policy = "roundRobin"
    /\ last.ret[1] > 0
    /\ \E ln \in d_coarsest_level .. d_finest_level :
          Points(Grow(hier[ln + 1].boxes[1], PatchDescriptor[last.args[1]].ghosts))
             \cap Points(Grow(hier[ln + 1].boxes[2], PatchDescriptor[last.args[1]].ghosts))
                # {}

(* The number of index points in the boxes of a container.                 *)
BoxesSize(lbs) == SumOver([k \in 1 .. Len(lbs) |-> BoxSize(lbs[k])], 1 .. Len(lbs))

(* The size of the decomposition that the boxes the levels of the range    *)
(* have now give, patch by patch.                                          *)
FreshCount ==
    LET cells == UNION {{<<ln, nd, il>> : nd \in Axes,
                                         il \in 1 .. Len(hier[ln + 1].boxes)} :
                        ln \in d_coarsest_level .. d_finest_level}
    IN SumOver([c \in cells |->
                   BoxesSize(CurrentDecomposition(c[1], c[2])[c[3]])], cells)

(* C11: for a hierarchy with given level boxes in given order and a given  *)
(* range with a current decomposition, numberOfEntries(id, true) returns   *)
(* on every process a value that the boxes, the range and the depth of the *)
(* data determine, whatever the number of processes and the owners of the  *)
(* patches.                                                                *)
C11_InteriorCountIgnoresOwners ==
    (last.op = "numberOfEntries" /\ last.interior /\ pc = "done"
        /\ DecompositionCurrent)
        => \A r \in Procs :
              last.ret[r] = PatchDescriptor[last.args[1]].depth * FreshCount

(* A completed interior count on two processes that own one patch each.    *)
C11_Witness ==
    /\ last.op = "numberOfEntries"
    /\ last.interior
    /\ pc = "done"
    /\ DecompositionCurrent
    /\ nprocs = 2
    /\ policy = "roundRobin"
    /\ last.ret[1] > 0
    /\ last.ret[2] = last.ret[1]

(* The edge boxes along axis nd of the boxes level ln has now.             *)
EdgeBoxesNow(ln, nd) ==
    [i \in 1 .. Len(hier[ln + 1].boxes) |-> toEdgeBox(hier[ln + 1].boxes[i], nd)]

(* The boxes of the containers of a decomposition, as <<container, box>>.  *)
Pieces(out) == UNION {{<<i, k>> : k \in 1 .. Len(out[i])} : i \in 1 .. Len(out)}

(* C12: the decomposition resetLevels stores for a level and an axis has   *)
(* one container per input edge box, its boxes cover exactly the union of  *)
(* the input edge boxes, and no two of its boxes overlap, be they in one   *)
(* container or in two.                                                    *)
C12_DecompositionPartitions ==
    (last.op = "resetLevels" /\ AllOk)
        => \A nd \in Axes : \A ln \in d_coarsest_level .. d_finest_level :
              LET in == EdgeBoxesNow(ln, nd)
                  out == d_nonoverlapping_edge_boxes[nd][ln + 1]
              IN /\ Len(out) = Len(in)
                 /\ UNION {Covered(out[i]) : i \in 1 .. Len(out)} = Covered(in)
                 /\ \A p, q \in Pieces(out) :
                       (p # q) => (Points(out[p[1]][p[2]])
                                      \cap Points(out[q[1]][q[2]]) = {})
                 /\ \A p \in Pieces(out) : ~BoxEmpty(out[p[1]][p[2]])

(* A decomposition of three boxes in which one input box is burst into     *)
(* more than one piece and two input boxes overlap.                        *)
C12_Witness ==
    /\ last.op = "resetLevels"
    /\ AllOk
    /\ Len(hier[1].boxes) = 3
    /\ \E i \in 1 .. 3 : Len(d_nonoverlapping_edge_boxes[0][1][i]) > 1
    /\ Points(EdgeBoxesNow(0, 0)[1]) \cap Points(EdgeBoxesNow(0, 0)[2]) # {}

(* C13: the i-th stored container covers exactly input edge box i minus    *)
(* the input edge boxes before it, so the first input box is kept whole    *)
(* and a shared index point belongs to the earliest box holding it.        *)
C13_EarliestBoxKeeps ==
    (last.op = "resetLevels" /\ AllOk)
        => \A nd \in Axes : \A ln \in d_coarsest_level .. d_finest_level :
              LET in == EdgeBoxesNow(ln, nd)
                  out == d_nonoverlapping_edge_boxes[nd][ln + 1]
              IN /\ Len(out) = Len(in)
                 /\ out[1] = <<in[1]>>
                 /\ \A i \in 1 .. Len(in) :
                       Covered(out[i])
                          = Points(in[i]) \ UNION {Points(in[j]) : j \in 1 .. (i - 1)}

(* A decomposition in which the second box lost index points to the first  *)
(* and the third lost all of its points to the two before it.              *)
C13_Witness ==
    /\ last.op = "resetLevels"
    /\ AllOk
    /\ Len(hier[1].boxes) = 3
    /\ hier[1].boxes[1] # hier[1].boxes[2]
    /\ Covered(d_nonoverlapping_edge_boxes[1][1][2]) # {}
    /\ Covered(d_nonoverlapping_edge_boxes[1][1][2]) # Points(EdgeBoxesNow(0, 1)[2])
    /\ d_nonoverlapping_edge_boxes[1][1][3] = <<>>

(* The cell box whose edge box along `axis` is eb.                         *)
toCellBox(eb, axis) ==
    [lo |-> eb.lo,
     hi |-> [i \in 1 .. DimVal |-> IF i # axis + 1 THEN eb.hi[i] - 1 ELSE eb.hi[i]]]

(* C14: for every axis, the edge boxes resetLevels derives from the boxes  *)
(* of a level differ when the cell boxes differ, and the inverse map of    *)
(* that axis gives back each cell box, also from the stored first          *)
(* container, which holds the first edge box whole.                        *)
C14_EdgeBoxInvertible ==
    (last.op = "resetLevels" /\ AllOk)
        => \A nd \in Axes : \A ln \in d_coarsest_level .. d_finest_level :
              LET boxes == hier[ln + 1].boxes
                  eb == LevelEdgeBoxes(hier[ln + 1], nd)
              IN /\ \A i, j \in 1 .. Len(boxes) :
                       (eb[i] = eb[j]) => (boxes[i] = boxes[j])
                 /\ \A i \in 1 .. Len(boxes) : toCellBox(eb[i], nd) = boxes[i]
                 /\ toCellBox(d_nonoverlapping_edge_boxes[nd][ln + 1][1][1], nd)
                       = boxes[1]

(* A decomposition of a level with two different boxes.                    *)
C14_Witness ==
    /\ last.op = "resetLevels"
    /\ AllOk
    /\ Len(hier[1].boxes) >= 2
    /\ hier[1].boxes[1] # hier[1].boxes[2]
    /\ d_nonoverlapping_edge_boxes[0][1][1] # d_nonoverlapping_edge_boxes[1][1][1]

(* C15 as stated: after every successful resetLevels and after every       *)
(* setPatchHierarchy, the decomposition stored for each level of a valid   *)
(* range is the one derived from the boxes of the hierarchy now bound.     *)
C15_RecomputedOnEveryChange ==
    (last.op \in {"resetLevels", "setPatchHierarchy"} /\ AllOk
        /\ LevelRangeValid(d_coarsest_level, d_finest_level))
        => DecompositionCurrent

(* C15: the stored decomposition is recomputed by every successful         *)
(* resetLevels and by nothing else: after it the slots of the range are    *)
(* derived from the hierarchy bound then, while setPatchHierarchy (like    *)
(* every step that is not a resetLevels or the constructor) leaves the     *)
(* stored range and decompositions as they were.                           *)
C15_RecomputedOnlyByReset ==
    [][/\ (last'.op = "setPatchHierarchy") => (opvars' = opvars)
       /\ (opvars' # opvars) => (last'.op \in {"resetLevels", "construct"})
       /\ (last'.op = "resetLevels" /\ \A r \in Procs : last'.outcome[r] = "ok")
             => DecompositionCurrent']_vars

(* A Bound operator handed a hierarchy whose levels of the range have      *)
(* other boxes than its stored decomposition describes.                    *)
C15_Witness ==
    /\ last.op = "setPatchHierarchy"
    /\ bound
    /\ LevelRangeValid(d_coarsest_level, d_finest_level)
    /\ ~DecompositionCurrent

(* The size of the stored decomposition over the levels of the range and   *)
(* the patches they have now.                                              *)
StoredCount ==
    LET cells == UNION {{<<ln, nd, il>> : nd \in Axes,
                                         il \in 1 .. Len(hier[ln + 1].boxes)} :
                        ln \in d_coarsest_level .. d_finest_level}
    IN SumOver([c \in cells |->
                   BoxesSize(d_nonoverlapping_edge_boxes[c[2]][c[1] + 1][c[3]])], cells)

(* Some level of the range has another number of patches than stored       *)
(* containers.                                                             *)
PatchCountChanged ==
    \E ln \in d_coarsest_level .. d_finest_level : \E nd \in Axes :
        Len(hier[ln + 1].boxes) # Len(d_nonoverlapping_edge_boxes[nd][ln + 1])

(* C16: numberOfEntries(id, true) on integer edge data with a valid range  *)
(* counts the decomposition stored by the last resetLevels, whatever the   *)
(* boxes of the levels are by now, or aborts when a level of the range has *)
(* another number of patches than stored containers; right after a         *)
(* successful resetLevels the stored count is that of the hierarchy as it  *)
(* is then.                                                                *)
C16_StaleUntilReset ==
    /\ (last.op = "numberOfEntries" /\ last.interior
           /\ LevelRangeValid(d_coarsest_level, d_finest_level)
           /\ PatchDescriptor[last.args[1]].type = "EdgeInt")
          => IF PatchCountChanged
             THEN AllAsserted
             ELSE /\ AllOk
                  /\ \A r \in Procs :
                        last.ret[r] = PatchDescriptor[last.args[1]].depth * StoredCount
    /\ (last.op = "resetLevels" /\ AllOk) => (StoredCount = DistinctEdgeEntities)

(* A completed interior count of a regridded level with as many patches as *)
(* before, which differs from the count of the boxes the level has now.    *)
C16_Witness ==
    /\ last.op = "numberOfEntries"
    /\ last.interior
    /\ pc = "done"
    /\ ~DecompositionCurrent
    /\ last.ret[1] # PatchDescriptor[last.args[1]].depth * DistinctEdgeEntities

(* No process has visited a patch in the call recorded last.               *)
NoPatchVisited == \A r \in Procs : PatchVisits(last.log[r]) = <<>>

(* C17: a min or max that completes without any process visiting a patch   *)
(* (no level of the range holds a patch) returns the value its accumulator *)
(* starts from on every process: the largest int for min, the negation of  *)
(* the largest int for max.                                                *)
C17_EmptyRangeExtrema ==
    (last.op \in {"min", "max"} /\ AllOk /\ NoPatchVisited)
        => \A r \in Procs :
              last.ret[r] = IF last.op = "min" THEN 2147483647 ELSE -2147483647

(* A max completed by several processes over a range without patches.      *)
C17_Witness ==
    /\ last.op = "max"
    /\ pc = "done"
    /\ nprocs > 1
    /\ LevelRangeValid(d_coarsest_level, d_finest_level)
    /\ \A r \in Procs : OwnedInRange(r) = {}

(* C18: a min or max called right after a completed setToScalar(id, v,     *)
(* flag), with the same id and flag, on a range that holds at least one    *)
(* patch, completes and returns v on every process, for every int v.       *)
C18_SetThenExtremaReturnScalar ==
    [][(/\ pc = "live"
        /\ last.op = "setToScalar"
        /\ AllOk
        /\ \E r \in Procs : OwnedInRange(r) # {}
        /\ last'.op \in {"min", "max"}
        /\ last'.args = last.args
        /\ last'.interior = last.interior)
          => \A r \in Procs : /\ last'.outcome[r] = "ok"
                              /\ last'.ret[r] = last.alpha]_vars

(* The two ids do not name integer edge data of equal depth and equal      *)
(* ghost cell width.                                                       *)
SwapIdsMismatch(ids) ==
    LET f1 == PatchDescriptor[ids[1]]
        f2 == PatchDescriptor[ids[2]]
    IN \/ f1.type # "EdgeInt"
       \/ f2.type # "EdgeInt"
       \/ f1.depth # f2.depth
       \/ f1.ghosts # f2.ghosts

(* C19: swapData with ids that are not both integer edge data, or differ   *)
(* in depth or in ghost cell width, aborts on every process before any     *)
(* patch is visited, and the two arrays of every patch of every level are  *)
(* the ones they were before the call.                                     *)
C19_SwapChecksFirst ==
    (last.op = "swapData" /\ SwapIdsMismatch(last.args))
        => /\ AllAsserted
           /\ \A r \in Procs : last.log[r] = <<>>
           /\ pdata = last.pre

(* A swap of two integer edge arrays of equal depth and unequal ghost cell *)
(* width, aborted on a bound operator whose range holds patches.           *)
C19_Witness ==
    /\ last.op = "swapData"
    /\ pc = "aborted"
    /\ LevelRangeValid(d_coarsest_level, d_finest_level)
    /\ OwnedInRange(1) # {}
    /\ PatchDescriptor[last.args[1]].type = "EdgeInt"
    /\ PatchDescriptor[last.args[2]].type = "EdgeInt"
    /\ PatchDescriptor[last.args[1]].depth = PatchDescriptor[last.args[2]].depth
    /\ PatchDescriptor[last.args[1]].ghosts # PatchDescriptor[last.args[2]].ghosts

(* C20: a swapData(id1, id2) that completes right after a completed        *)
(* swapData of the same two ids leaves every array of every patch as it    *)
(* was before the first of the two calls, and a second swap of the same    *)
(* ids does complete.                                                      *)
C20_SwapTwiceRestores ==
    [][(/\ pc = "live"
        /\ last.op = "swapData"
        /\ AllOk
        /\ last'.op = "swapData"
        /\ last'.args = last.args)
          => /\ \A r \in Procs : last'.outcome[r] = "ok"
             /\ pdata' = last.pre]_vars

(* The second of two swaps has put back the data the hierarchy was         *)
(* allocated with, which the first one had changed.                        *)
C20_Witness ==
    /\ last.op = "swapData"
    /\ pc = "done"
    /\ last.pre # pdata
    /\ pdata = [i \in 1 .. Len(hier) |-> NewLevelData(i - 1, hier[i].boxes)]

(* The entries of the array d of a patch with box pbox that an operation   *)
(* with the flag interior and the other array s works on: those in the     *)
(* edge box of the patch box, or of the ghost box of d, that s holds too.  *)
OperatedEntries(d, s, pbox, interior) ==
    {e \in DOMAIN d.val :
        /\ e[2] \in Points(toEdgeBox(IF interior THEN pbox ELSE Grow(pbox, d.ghosts), e[1]))
        /\ e \in DOMAIN s.val}

(* C21: a subtract(dst, dst, src, flag) called right after a completed     *)
(* copyData(dst, src, flag) completes, and then every entry of dst in the  *)
(* operated region is zero on every patch of every level of the range.     *)
C21_CopyThenSubtractZero ==
    [][(/\ pc = "live"
        /\ last.op = "copyData"
        /\ AllOk
        /\ last'.op = "subtract"
        /\ last'.args = <<last.args[1], last.args[1], last.args[2]>>
        /\ last'.interior = last.interior)
          => /\ \A r \in Procs : last'.outcome[r] = "ok"
             /\ \A ln \in d_coarsest_level .. d_finest_level :
                \A il \in 1 .. Len(hier[ln + 1].boxes) :
                   LET d == pdata'[ln + 1][il][last.args[1]]
                       sa == pdata'[ln + 1][il][last.args[2]]
                   IN \A e \in OperatedEntries(d, sa, hier[ln + 1].boxes[il],
                                               last.interior) :
                         d.val[e] = 0]_vars

(* A subtract(0, 0, 1) over the ghost boxes has zeroed entries of array 0  *)
(* that held the most negative int, copied from array 1 before, and has    *)
(* left an entry of array 0 outside array 1 at a nonzero value.            *)
C21_Witness ==
    /\ last.op = "subtract"
    /\ pc = "done"
    /\ last.args = <<0, 0, 1>>
    /\ ~last.interior
    /\ \E e \in DOMAIN pdata[1][1][1].val :
          /\ last.pre[1][1][0].val[e] = -2147483647 - 1
          /\ pdata[1][1][0].val[e] = 0
    /\ \E e \in DOMAIN pdata[1][1][0].val :
          /\ e \notin DOMAIN pdata[1][1][1].val
          /\ pdata[1][1][0].val[e] # 0

SamePrograms == \A r \in Procs : program[r] = program[1]

(* Every process has returned from every call of its program.              *)
AllReturned ==
    \A r \in Procs : (proc[r].at = "idle") /\ (proc[r].k = Len(program[r]))

(* C23: when every process issues the same sequence of scalar calls with   *)
(* the same arguments on a bound operator, every call of every process     *)
(* eventually returns, whether or not the process owns a patch.            *)
C23_SameOrderReturns ==
    (pc = "live" /\ SamePrograms) ~> AllReturned

(* Two or more processes, all patches on the first one, have returned from *)
(* the same three calls with the same values.                              *)
C23_Witness ==
    /\ nprocs > 1
    /\ policy = "allOnFirst"
    /\ pc = "live"
    /\ SamePrograms
    /\ Len(program[1]) = 3
    /\ AllReturned
    /\ \A r \in Procs : \A i \in 1 .. 3 : proc[r].rets[i].val = proc[1].rets[i].val

(* The return of process r's latest call in the step taken.                *)
LatestReturn(r) == proc'[r].rets[Len(proc'[r].rets)]

(* C24: a process that has entered the collective reduction leaves it only *)
(* when every process has entered the all-reduce of the same number; when  *)
(* the calls entered do not match it then either hangs or returns a        *)
(* reduction over the contributions of the different calls, and in no case *)
(* does it abort or return an error status.                                *)
C24_CollectiveBlocksSilently ==
    [][\A r \in Procs :
          ((proc[r].at = "reducing") /\ (proc'[r].at # "reducing")) =>
              /\ nprocs > 1
              /\ AllEntered(r)
              /\ proc'[r].at \in {"idle", "hung"}
              /\ (proc'[r].at = "hung") => Mismatched(r)
              /\ (proc'[r].at = "idle") =>
                    /\ LatestReturn(r).from = ContributingCalls(r)
                    /\ LatestReturn(r).val = Received(r)
                    /\ ~LatestReturn(r).error]_vars

(* Two processes issued min and max in opposite orders: the first has      *)
(* returned from min with the MPI_MIN of its minimum and the other's       *)
(* maximum, the other hangs.                                               *)
C24_Witness ==
    /\ nprocs = 2
    /\ pc = "live"
    /\ proc[1].rets # <<>>
    /\ proc[1].rets[1].from = <<"min", "max">>
    /\ proc[1].rets[1].val \in Int
    /\ ~proc[1].rets[1].error
    /\ proc[2].at = "hung"

(* The ids whose arrays a call may change: the destination of a           *)
(* manipulation operation, both ids of swapData, none for numberOfEntries, *)
(* min, max and printData.                                                 *)
Destinations(call) ==
    IF call.op \in OpsWriting THEN {call.args[1]}
    ELSE IF call.op = "swapData" THEN {call.args[1], call.args[2]}
    ELSE {}

(* C25: a data operation, whether it succeeds or aborts, changes neither   *)
(* the hierarchy (levels, patch boxes, owners) nor the level range nor the *)
(* stored decompositions, and changes no array other than its destination  *)
(* (both arrays for swapData, none for numberOfEntries, min, max and       *)
(* printData).                                                             *)
C25_Frame ==
    [][((pc = "live") /\ (pc' # "live") /\ (last'.op \in OpsAll)) =>
          /\ hier' = hier
          /\ d_coarsest_level' = d_coarsest_level
          /\ d_finest_level' = d_finest_level
          /\ d_nonoverlapping_edge_boxes' = d_nonoverlapping_edge_boxes
          /\ bound' = bound
          /\ DOMAIN pdata' = DOMAIN pdata
          /\ \A i \in DOMAIN pdata :
                /\ DOMAIN pdata'[i] = DOMAIN pdata[i]
                /\ \A il \in DOMAIN pdata[i] :
                      \A id \in Ids \ Destinations(last') :
                         pdata'[i][il][id] = pdata[i][il][id]]_vars

(* A manipulation operation with a source other than its destination has   *)
(* run on two levels and changed the destination.                          *)
C25_Witness ==
    /\ last.op \in OpsWriting
    /\ Len(last.args) > 1
    /\ last.args[Len(last.args)] # last.args[1]
    /\ AllOk
    /\ Len(hier) = 2
    /\ d_coarsest_level = 0
    /\ d_finest_level = 1
    /\ \A i \in DOMAIN pdata : \A il \in DOMAIN pdata[i] :
          pdata[i][il][last.args[1]] # last.pre[i][il][last.args[1]]

(* The operator is Bound to [c, f] with the decomposition of every level  *)
(* of the range derived from the level's boxes.                            *)
BoundTo(c, f) ==
    /\ bound' /\ (pc' = "live")
    /\ d_coarsest_level' = c
    /\ d_finest_level' = f
    /\ \A nd \in Axes :
          /\ Len(d_nonoverlapping_edge_boxes'[nd]) = f + 1
          /\ \A ln \in c .. f :
                d_nonoverlapping_edge_boxes'[nd][ln + 1] = CurrentDecomposition(ln, nd)

(* C28: the constructor, given a negative coarsest or finest level, binds  *)
(* the operator to [0, finestLevelNumber] when the hierarchy has a level   *)
(* and leaves it Unbound, with the given values stored and no              *)
(* decomposition, when it has none; given two non-negative levels it does  *)
(* what resetLevels(c, f) does: it binds to [c, f] when the range is valid *)
(* and fails, with nothing stored, when it is not.                         *)
C28_ConstructorBinds ==
    [][\A c \in LevelArgs, f \in LevelArgs :
          Construct(c, f) =>
             IF (c < 0) \/ (f < 0)
             THEN IF Len(hier) >= 1
                  THEN BoundTo(0, Len(hier) - 1)
                  ELSE /\ ~bound' /\ (pc' = "live")
                       /\ d_coarsest_level' = c
                       /\ d_finest_level' = f
                       /\ d_nonoverlapping_edge_boxes' = [nd \in Axes |-> <<>>]
             ELSE IF (f >= c) /\ (f <= Len(hier) - 1)
                  THEN BoundTo(c, f)
                  ELSE /\ ~bound' /\ (pc' = "aborted")
                       /\ last'.op = "resetLevels"
                       /\ last'.args = <<c, f>>
                       /\ opvars' = opvars]_vars

(* Built with a negative coarsest level on a hierarchy without levels, the *)
(* operator is Unbound and holds the values given.                         *)
C28_Witness ==
    /\ Len(hier) = 0
    /\ last.op = "construct"
    /\ last.args = <<-1, 1>>
    /\ pc = "live"
    /\ ~bound
    /\ d_coarsest_level = -1
    /\ d_finest_level = 1
    /\ d_nonoverlapping_edge_boxes = [nd \in Axes |-> <<>>]

(* The slots <<axis, level>> of d_nonoverlapping_edge_boxes the loops of   *)
(* numberOfEntries(id, true) read: for ln from d_coarsest_level to         *)
(* d_finest_level, for every axis, d_nonoverlapping_edge_boxes[axis][ln].  *)
SlotsRead ==
    {<<nd, ln>> : nd \in Axes, ln \in d_coarsest_level .. d_finest_level}

(* C29: while the hierarchy is not changed after the operator was bound,   *)
(* for every axis and every level of the range the number of stored        *)
(* per-patch containers is the level's number of patches, so the patch     *)
(* count assertion of numberOfEntries(id, true) holds, and the slots the   *)
(* call reads exist and are those of the levels of the range.              *)
C29_CountsAgreeInRange ==
    bound =>
        /\ \A nd \in Axes : \A ln \in d_coarsest_level .. d_finest_level :
              /\ ln + 1 <= Len(d_nonoverlapping_edge_boxes[nd])
              /\ Len(d_nonoverlapping_edge_boxes[nd][ln + 1]) = Len(hier[ln + 1].boxes)
        /\ \A sl \in SlotsRead :
              /\ sl[2] >= d_coarsest_level
              /\ sl[2] <= d_finest_level
              /\ sl[2] + 1 \in DOMAIN d_nonoverlapping_edge_boxes[sl[1]]
        /\ (last.op = "numberOfEntries" /\ last.interior
               /\ PatchDescriptor[last.args[1]].type = "EdgeInt") => AllOk

(* The interior count has been taken on the finer of two levels, the range *)
(* bound leaving the slot of level 0 outside.                              *)
C29_Witness ==
    /\ bound
    /\ Len(hier) = 2
    /\ d_coarsest_level = 1
    /\ d_finest_level = 1
    /\ last.op = "numberOfEntries"
    /\ last.interior
    /\ AllOk
    /\ \A nd \in Axes : Len(d_nonoverlapping_edge_boxes[nd]) = 2

(* The call recorded in last, as an operation.                             *)
LastOp == MkOp(last.op, last.args, last.alpha, last.beta, last.interior)

(* Some id of the last call did not resolve on the patch v = <<ln, il>>    *)
(* when the call was made.                                                  *)
FailedOn(v) ==
    \E i \in 1 .. Len(last.args) :
        IsNull(getPatchData(last.pre[v[1] + 1][v[2]], last.args[i]))

(* The destination array the patch operator of the last call leaves on the *)
(* patch v, computed from the data the call started from.                  *)
DestinationAfter(v) ==
    PatchOp(LastOp, Handles(last.pre[v[1] + 1][v[2]], LastOp),
            RegionBox(LastOp, hier[v[1] + 1].boxes[v[2]],
                      Handles(last.pre[v[1] + 1][v[2]], LastOp))).d

(* C30: when a manipulation operation aborts because an id does not        *)
(* resolve on some patch, every patch the process visited before the       *)
(* failing one holds the result of the operation, and the failing patch    *)
(* and the patches after it hold the data they had before the call:        *)
(* nothing is rolled back.                                                 *)
C30_AbortNotAtomic ==
    ((last.op \in OpsWriting) /\ (pc = "aborted") /\ PreconditionHolds) =>
        \A r \in Procs :
            LET vs == Visits(r, d_coarsest_level, d_finest_level)
            IN \A i \in 1 .. Len(vs) :
                  IF \E j \in 1 .. i : FailedOn(vs[j])
                  THEN pdata[vs[i][1] + 1][vs[i][2]] = last.pre[vs[i][1] + 1][vs[i][2]]
                  ELSE /\ last.outcome[r] = "assert" => (\E j \in (i + 1) .. Len(vs) : FailedOn(vs[j]))
                       /\ pdata[vs[i][1] + 1][vs[i][2]]
                             = [last.pre[vs[i][1] + 1][vs[i][2]]
                                   EXCEPT ![last.args[1]] = DestinationAfter(vs[i])]

(* copyData(1, 0) aborted on level 1, where the destination was not        *)
(* allocated, after it had changed the destination on the patches of       *)
(* level 0.                                                                *)
C30_Witness ==
    /\ last.op = "copyData"
    /\ last.args = <<1, 0>>
    /\ pc = "aborted"
    /\ d_coarsest_level = 0
    /\ d_finest_level = 1
    /\ \A il \in DOMAIN pdata[1] :
          /\ ~IsNull(last.pre[1][il][1])
          /\ pdata[1][il][1] # last.pre[1][il][1]
    /\ \A il \in DOMAIN pdata[2] :
          /\ IsNull(last.pre[2][il][1])
          /\ pdata[2][il] = last.pre[2][il]

(* The box has dimension 0, or some component below its dimension has its  *)
(* upper index below its lower index.                                      *)
HasNoCell(b) ==
    (b.d_dimension = 0)
        \/ (\E i \in Comps : (i < b.d_dimension) /\ (b.d_hi[i] < b.d_lo[i]))

(* C26: in every state reached through the constructors, copy assignment,  *)
(* setDim and writes through lower(i) and upper(i), empty() is true        *)
(* exactly when the dimension is 0 or upper(i) < lower(i) for some i below *)
(* the dimension; a default-constructed box has dimension 0 and is empty.  *)
C26_EmptyIffNoCell ==
    (pc = "live" /\ dbox # <<>>) =>
        /\ \A k \in DOMAIN dbox : empty(dbox[k]) <=> HasNoCell(dbox[k])
        /\ DefaultDatabaseBox.d_dimension = 0
        /\ empty(DefaultDatabaseBox)

(* A box whose dimension setDim lowered to 1: the component left above the *)
(* dimension has its upper index below its lower index, and the box is not *)
(* empty.                                                                  *)
C26_Witness ==
    /\ pc = "live"
    /\ dbox # <<>>
    /\ dbox[1].d_dimension = 1
    /\ dbox[1].d_hi[0] >= dbox[1].d_lo[0]
    /\ dbox[1].d_hi[1] < dbox[1].d_lo[1]
    /\ ~empty(dbox[1])

(* The two boxes have the same dimension and the same corners in every     *)
(* component below it.                                                     *)
SameIndexSpace(a, b) ==
    /\ a.d_dimension = b.d_dimension
    /\ \A i \in Comps :
          (i < a.d_dimension) => (a.d_lo[i] = b.d_lo[i] /\ a.d_hi[i] = b.d_hi[i])

(* C27: operator== is true exactly when the two boxes have the same        *)
(* dimension and the same lower and upper corner in every component below  *)
(* it; it is reflexive, symmetric and transitive, and the components at or *)
(* above the dimension never affect its result.                            *)
C27_EqualsIsSameIndexSpace ==
    (pc = "live" /\ dbox # <<>>) =>
        /\ operatorEquals(dbox[1], dbox[2]) <=> SameIndexSpace(dbox[1], dbox[2])
        /\ operatorEquals(dbox[1], dbox[1])
        /\ operatorEquals(dbox[2], dbox[2])
        /\ operatorEquals(dbox[1], dbox[2]) <=> operatorEquals(dbox[2], dbox[1])
        /\ \A c \in DatabaseBoxes :
              /\ (operatorEquals(dbox[1], dbox[2]) /\ operatorEquals(dbox[2], c))
                    => operatorEquals(dbox[1], c)
              /\ SameIndexSpace(dbox[2], c)
                    => /\ operatorEquals(dbox[1], c) = operatorEquals(dbox[1], dbox[2])
                       /\ operatorEquals(c, dbox[1]) = operatorEquals(dbox[2], dbox[1])

(* Two boxes of dimension 1 with the same first component that differ in   *)
(* the component above the dimension compare equal.                        *)
C27_Witness ==
    /\ pc = "live"
    /\ dbox # <<>>
    /\ dbox[1].d_dimension = 1
    /\ dbox[2].d_dimension = 1
    /\ dbox[1].d_lo[0] = dbox[2].d_lo[0]
    /\ dbox[1].d_hi[0] = dbox[2].d_hi[0]
    /\ dbox[1].d_hi[1] # dbox[2].d_hi[1]
    /\ operatorEquals(dbox[1], dbox[2])

====
